---------------------------- MODULE Spec2Model ----------------------------
(***************************************************************************)
(* Model of the turno API: record schemas (models/turno.model.ts), the     *)
(* TurnoService validation and bulk import (services/turno.service.ts)     *)
(* and the TurnoRepository over a document container partitioned by        *)
(* /fecha (repositories/turno.repository.ts).                              *)
(*                                                                         *)
(* A JavaScript string is a sequence of one-character strings, so that the *)
(* regular expressions and the transforms of the schemas are computed.     *)
(* A JavaScript object is a function from its keys: a key the object does  *)
(* not have is outside its DOMAIN, a key that holds undefined maps to      *)
(* UNDEFINED.                                                              *)
(***************************************************************************)
EXTENDS Integers, Sequences, FiniteSets, TLC

VARIABLES store, now, last, json, calls

vars == <<store, now, last, json, calls>>

-----------------------------------------------------------------------------
(* Strings *)

UNDEFINED == <<"undefined">>

Digits == <<"0", "1", "2", "3", "4", "5", "6", "7", "8", "9">>

IsDigit(c) == \E i \in 1..Len(Digits) : Digits[i] = c

DigitVal(c) == (CHOOSE i \in 1..Len(Digits) : Digits[i] = c) - 1

\* the characters of the model in code-unit order
CharOrder ==
  <<" ", "-", ".", "/", "0", "1", "2", "3", "4", "5", "6", "7", "8", "9", ":",
    "A", "E", "I", "L", "M", "P", "R", "S", "T", "U", "X", "_",
    "a", "c", "d", "e", "f", "h", "i", "l", "m", "n", "o", "p", "r", "s", "t",
    "u", "x", "y",
    "Í", "í", "ñ">>

CharCode(c) == CHOOSE i \in 1..Len(CharOrder) : CharOrder[i] = c

\* a < b for strings, by code units (the SQL and the JavaScript comparison)
RECURSIVE StrLess(_, _)
StrLess(a, b) ==
  IF b = <<>> THEN FALSE
  ELSE IF a = <<>> THEN TRUE
  ELSE IF Head(a) = Head(b) THEN StrLess(Tail(a), Tail(b))
  ELSE CharCode(Head(a)) < CharCode(Head(b))

StrLeq(a, b) == a = b \/ StrLess(a, b)

ToLowerChar(c) ==
  CASE c = "A" -> "a" [] c = "E" -> "e" [] c = "I" -> "i" [] c = "L" -> "l"
    [] c = "M" -> "m" [] c = "P" -> "p" [] c = "R" -> "r" [] c = "S" -> "s"
    [] c = "T" -> "t" [] c = "U" -> "u" [] c = "X" -> "x" [] c = "Í" -> "í"
    [] OTHER -> c

ToLowerCase(s) == [i \in 1..Len(s) |-> ToLowerChar(s[i])]

IsSpace(c) == c = " "

RECURSIVE TrimStart(_)
TrimStart(s) ==
  IF s # <<>> /\ IsSpace(Head(s)) THEN TrimStart(Tail(s)) ELSE s

RECURSIVE TrimEnd(_)
TrimEnd(s) ==
  IF s # <<>> /\ IsSpace(s[Len(s)]) THEN TrimEnd(SubSeq(s, 1, Len(s) - 1)) ELSE s

Trim(s) == TrimEnd(TrimStart(s))

AllDigits(s) == \A i \in 1..Len(s) : IsDigit(s[i])

\* Number / parseInt of a string of digits
RECURSIVE ParseInt(_)
ParseInt(s) ==
  IF s = <<>> THEN 0
  ELSE ParseInt(SubSeq(s, 1, Len(s) - 1)) * 10 + DigitVal(s[Len(s)])

\* n.toString() for n >= 0
RECURSIVE NumToString(_)
NumToString(n) ==
  IF n < 10 THEN <<Digits[n + 1]>>
  ELSE Append(NumToString(n \div 10), Digits[(n % 10) + 1])

RECURSIVE PadStart(_, _)
PadStart(s, width) ==
  IF Len(s) >= width THEN s ELSE PadStart(<<"0">> \o s, width)

\* s.split(sep)
RECURSIVE Split(_, _)
Split(s, sep) ==
  IF \A i \in 1..Len(s) : s[i] # sep THEN <<s>>
  ELSE LET i == CHOOSE j \in 1..Len(s) :
                  s[j] = sep /\ \A k \in 1..(j - 1) : s[k] # sep
       IN  <<SubSeq(s, 1, i - 1)>> \o Split(SubSeq(s, i + 1, Len(s)), sep)

-----------------------------------------------------------------------------
(* Objects *)

\* o.k: a missing key reads as undefined
Get(o, k) == IF k \in DOMAIN o THEN o[k] ELSE UNDEFINED

\* o.k = v
Put(o, k, v) == [x \in DOMAIN o \cup {k} |-> IF x = k THEN v ELSE o[x]]

\* { ...e, ...d }
Spread(e, d) ==
  [k \in DOMAIN e \cup DOMAIN d |-> IF k \in DOMAIN d THEN d[k] ELSE e[k]]

\* truthiness of a string property
Truthy(v) == v # UNDEFINED /\ v # <<>>

StringKeys ==
  {"id", "fecha", "turno", "startShift", "endShift", "notas", "personaId"}

\* the object as it comes back from the container: JSON has no undefined
ToJSON(o) ==
  [k \in {x \in DOMAIN o : ~(x \in StringKeys /\ o[x] = UNDEFINED)} |-> o[k]]

-----------------------------------------------------------------------------
(* models/turno.model.ts: the insert schema and the document *)

\* /^\d{4}-\d{2}-\d{2}$/
IsISODate(s) ==
  /\ Len(s) = 10
  /\ s[5] = "-" /\ s[8] = "-"
  /\ \A i \in {1, 2, 3, 4, 6, 7, 9, 10} : IsDigit(s[i])

\* /^([01]\d|2[0-3]):([0-5]\d)$/
IsTime24(s) ==
  /\ Len(s) = 5
  /\ s[3] = ":"
  /\ \/ s[1] \in {"0", "1"} /\ IsDigit(s[2])
     \/ s[1] = "2" /\ s[2] \in {"0", "1", "2", "3"}
  /\ s[4] \in {"0", "1", "2", "3", "4", "5"} /\ IsDigit(s[5])

TurnoType ==
  { <<"m", "a", "ñ", "a", "n", "a">>, <<"t", "a", "r", "d", "e">>,
    <<"n", "o", "c", "h", "e">> }

\* a schema that looks at the two times only
turnoInsertIssuesTimesOnly(data) ==
  {f \in {"startShift", "endShift"} :
     Get(data, f) # UNDEFINED /\ ~IsTime24(Get(data, f))}

\* the fields of a candidate that turnoInsertSchema rejects; an optional
\* field passes when its key is missing or holds undefined
turnoInsertIssues(data) ==
  {f \in {"fecha", "turno", "startShift", "endShift"} :
     LET v == Get(data, f) IN
     CASE f = "fecha"      -> v = UNDEFINED \/ ~IsISODate(v)
       [] f = "turno"      -> v # UNDEFINED /\ v \notin TurnoType
       [] f = "startShift" -> v # UNDEFINED /\ ~IsTime24(v)
       [] f = "endShift"   -> v # UNDEFINED /\ ~IsTime24(v)}

\* the parsed value: esVacaciones defaults to false and notas to '', every
\* other key of the input stays as it is
turnoInsertSchema(data) ==
  LET withVac == IF "esVacaciones" \in DOMAIN data THEN data
                 ELSE Put(data, "esVacaciones", FALSE)
  IN  IF Get(withVac, "notas") = UNDEFINED THEN Put(withVac, "notas", <<>>)
      ELSE withVac

generateTurnoId(fecha, personaId) ==
  IF Truthy(personaId) THEN fecha \o <<"_">> \o personaId ELSE fecha

\* the document of createTurnoDocument, created at time t
createTurnoDocument(data, t) ==
  [ id |-> generateTurnoId(data.fecha, Get(data, "personaId")),
    fecha |-> data.fecha,
    turno |-> Get(data, "turno"),
    startShift |-> Get(data, "startShift"),
    endShift |-> Get(data, "endShift"),
    esVacaciones |-> data.esVacaciones,
    notas |-> IF Truthy(Get(data, "notas")) THEN data.notas ELSE <<>>,
    personaId |-> Get(data, "personaId"),
    createdAt |-> t,
    updatedAt |-> t ]

-----------------------------------------------------------------------------
(* utils/date.ts *)

\* the LOCALE of the process starts with 'en-US' (default 'es-AR')
localeIsEnUS == FALSE

IsLeapYear(y) == (y % 4 = 0 /\ y % 100 # 0) \/ y % 400 = 0

DaysInMonth(y, m) ==
  IF m = 2 THEN (IF IsLeapYear(y) THEN 29 ELSE 28)
  ELSE IF m \in {4, 6, 9, 11} THEN 30 ELSE 31

\* day d of month m (1..12) of year y, d carried into the months around it
RECURSIVE CarryDay(_, _, _)
CarryDay(y, m, d) ==
  IF d < 1 THEN
    LET pm == IF m = 1 THEN 12 ELSE m - 1
        py == IF m = 1 THEN y - 1 ELSE y
    IN  CarryDay(py, pm, d + DaysInMonth(py, pm))
  ELSE IF d > DaysInMonth(y, m) THEN
    CarryDay(IF m = 12 THEN y + 1 ELSE y, IF m = 12 THEN 1 ELSE m + 1,
             d - DaysInMonth(y, m))
  ELSE [year |-> y, month |-> m, day |-> d]

\* new Date(year, monthIndex, day): a year 0..99 means 1900 + year
JSDate(year, monthIndex, day) ==
  LET y0 == IF year \in 0..99 THEN 1900 + year ELSE year
  IN  CarryDay(y0 + (monthIndex \div 12), (monthIndex % 12) + 1, day)

formatISO(date) ==
  PadStart(NumToString(date.year), 4) \o <<"-">>
    \o PadStart(NumToString(date.month), 2) \o <<"-">>
    \o PadStart(NumToString(date.day), 2)

\* /^\d{1,2}\/\d{1,2}\/\d{4}$/
IsShortDate(s) ==
  LET parts == Split(s, "/") IN
  /\ Len(parts) = 3
  /\ \A i \in 1..3 : AllDigits(parts[i])
  /\ Len(parts[1]) \in {1, 2} /\ Len(parts[2]) \in {1, 2} /\ Len(parts[3]) = 4

fromShort(dateStr) ==
  LET n == [i \in 1..3 |-> ParseInt(Split(dateStr, "/")[i])] IN
  IF localeIsEnUS THEN JSDate(n[3], n[1] - 1, n[2])
  ELSE JSDate(n[3], n[2] - 1, n[1])

\* ok with the ISO date, or not ok where the function throws
normalizeDateInput(input) ==
  IF IsISODate(input) THEN [ok |-> TRUE, value |-> input]
  ELSE IF IsShortDate(input) THEN
    [ok |-> TRUE, value |-> formatISO(fromShort(input))]
  ELSE [ok |-> FALSE, value |-> input]

-----------------------------------------------------------------------------
(* repositories/turno.repository.ts: TurnoRepository over the container.   *)
(* The container is the set of its documents; /fecha is the partition key, *)
(* so an item is addressed by its id and its fecha.  An operation returns  *)
(* the container after it, "ok" or "throw", and the resource it resolves   *)
(* to as a set: empty for null.  fail names the storage call that fails    *)
(* during the operation: "find" (the lookup) or "write" (the read, create  *)
(* or replace of the write), or "none".                                    *)

FailPoints == {"none", "find", "write"}

Returned(s, resource) ==
  [store |-> s, status |-> "ok", resource |-> resource, error |-> "none"]

Thrown(s, error) ==
  [store |-> s, status |-> "throw", resource |-> {}, error |-> error]

\* container.item(id, partitionKey).read()
ReadItem(s, id, partitionKey) ==
  {d \in s : d.id = id /\ d.fecha = partitionKey}

findById(s, id, partitionKey) == ReadItem(s, id, partitionKey)

findByFecha(s, fecha, personaId) ==
  findById(s, generateTurnoId(fecha, personaId), fecha)

create(s, data, t, fail) ==
  LET document == ToJSON(createTurnoDocument(data, t)) IN
  IF fail = "write" THEN Thrown(s, "storage")
  ELSE IF ReadItem(s, document.id, document.fecha) # {}
    THEN Thrown(s, "Ya existe un turno")
  ELSE Returned(s \cup {document}, {document})

\* the document that update builds from the item it read
updatedDocumentOf(existing, data, t) ==
  ToJSON(Put(Spread(existing, data), "updatedAt", t))

\* container.item(id, partitionKey).replace(document): the container after
\* it, or "not found" (404) when the item is not there
replaceItem(s, id, partitionKey, document) ==
  IF ReadItem(s, id, partitionKey) = {}
  THEN [store |-> s, status |-> "not found"]
  ELSE [store |-> (s \ ReadItem(s, id, partitionKey)) \cup {document},
        status |-> "ok"]

\* an update that writes a new document in place of the old one
updateAsNew(s, id, data, t, fail) ==
  LET partitionKey == IF Truthy(Get(data, "fecha")) THEN data.fecha
                      ELSE Split(id, "_")[1]
      found == ReadItem(s, id, partitionKey)
  IN  IF fail = "write" THEN Thrown(s, "storage")
      ELSE IF found = {} THEN Returned(s, {})
      ELSE LET updatedDocument == ToJSON(createTurnoDocument(data, t))
           IN  Returned((s \ found) \cup {updatedDocument}, {updatedDocument})

update(s, id, data, t, fail) ==
  LET partitionKey == IF Truthy(Get(data, "fecha")) THEN data.fecha
                      ELSE Split(id, "_")[1]
      found == ReadItem(s, id, partitionKey)
  IN  IF fail = "write" THEN Thrown(s, "storage")
      ELSE IF found = {} THEN Returned(s, {})
      ELSE LET existing == CHOOSE d \in found : TRUE
               updatedDocument ==
                 ToJSON(Put(Spread(existing, data), "updatedAt", t))
           IN  Returned((s \ {existing}) \cup {updatedDocument},
                        {updatedDocument})

\* resolves to true, or to false when the item is not there (404)
delete(s, id, partitionKey, fail) ==
  IF fail = "write" THEN [store |-> s, status |-> "throw", deleted |-> FALSE]
  ELSE [store |-> s \ ReadItem(s, id, partitionKey), status |-> "ok",
        deleted |-> ReadItem(s, id, partitionKey) # {}]

upsert(s, data, t, fail) ==
  IF fail = "find" THEN Thrown(s, "storage")
  ELSE LET existing == findByFecha(s, data.fecha, Get(data, "personaId")) IN
       IF existing # {}
       THEN update(s, (CHOOSE d \in existing : TRUE).id, data, t, fail)
       ELSE create(s, data, t, fail)

\* the order of two documents under ORDER BY c.fecha ASC; the query leaves
\* the order of two documents of one fecha open: idAsc picks it
DocBefore(a, b, idAsc) ==
  \/ StrLess(a.fecha, b.fecha)
  \/ a.fecha = b.fecha /\ (IF idAsc THEN StrLess(a.id, b.id)
                            ELSE StrLess(b.id, a.id))

RECURSIVE OrderByFecha(_, _)
OrderByFecha(resources, idAsc) ==
  IF resources = {} THEN <<>>
  ELSE CHOOSE end \in
         {<<first>> \o OrderByFecha(resources \ {first}, idAsc) :
            first \in {a \in resources :
                         \A b \in resources \ {a} : DocBefore(a, b, idAsc)}} :
         TRUE

\* a query with < where the code has <= on the upper bound
findByDateRangeOpen(s, from, to, personaId, idAsc) ==
  OrderByFecha({d \in s : /\ StrLeq(from, d.fecha) /\ StrLess(d.fecha, to)
                          /\ Truthy(personaId) =>
                               Get(d, "personaId") = personaId}, idAsc)

\* c.fecha >= @from AND c.fecha <= @to, AND c.personaId = @personaId when
\* personaId is truthy, ORDER BY c.fecha ASC
findByDateRange(s, from, to, personaId, idAsc) ==
  OrderByFecha({d \in s : /\ StrLeq(from, d.fecha) /\ StrLeq(d.fecha, to)
                          /\ Truthy(personaId) =>
                               Get(d, "personaId") = personaId}, idAsc)

\* the filters of search as the WHERE clause: a filter that is falsy is
\* left out, esVacaciones is left out when the key is not there
Selected(d, filters) ==
  LET from == Get(filters, "from")
      to == Get(filters, "to")
  IN  /\ Truthy(Get(filters, "fecha")) => d.fecha = filters.fecha
      /\ Truthy(Get(filters, "turno")) => Get(d, "turno") = filters.turno
      /\ "esVacaciones" \in DOMAIN filters =>
           d.esVacaciones = filters.esVacaciones
      /\ Truthy(Get(filters, "personaId")) =>
           Get(d, "personaId") = filters.personaId
      /\ IF Truthy(from) /\ Truthy(to)
         THEN StrLeq(from, d.fecha) /\ StrLeq(d.fecha, to)
         ELSE IF Truthy(from) THEN StrLeq(from, d.fecha)
         ELSE IF Truthy(to) THEN StrLeq(d.fecha, to)
         ELSE TRUE

Reverse(seq) == [i \in 1..Len(seq) |-> seq[Len(seq) + 1 - i]]

\* ORDER BY c.fecha DESC
search(s, filters, idAsc) ==
  CHOOSE out \in
    { [items |-> items, total |-> Len(items)] :
      items \in {Reverse(OrderByFecha({d \in s : Selected(d, filters)},
                                      idAsc))} } : TRUE

\* the statistics of the documents selected by from and to, each optional
getStats(s, from, to) ==
  LET allTurnos ==
        {d \in s : /\ Truthy(from) => StrLeq(from, d.fecha)
                   /\ Truthy(to) => StrLeq(d.fecha, to)}
      counted == {d \in allTurnos : ~d.esVacaciones /\ Truthy(Get(d, "turno"))}
  IN  [total |-> Cardinality(allTurnos),
       porTurno |-> [x \in {d.turno : d \in counted} |->
                       Cardinality({d \in counted : d.turno = x})],
       vacaciones |-> Cardinality({d \in allTurnos : d.esVacaciones})]

\* a delete with <= where the code has <
deleteOlderThanInclusive(s, date, failed) ==
  LET resources == {d \in s : StrLeq(d.fecha, date)}
      deleted == {d \in resources : d.fecha \notin failed}
  IN  [store |-> s \ deleted, deletedCount |-> Cardinality(deleted)]

\* the query selects by fecha < date (string order); the delete of an item
\* whose fecha is in failed throws and is only logged
deleteOlderThan(s, date, failed) ==
  LET resources == {d \in s : StrLess(d.fecha, date)}
      deleted == {d \in resources : d.fecha \notin failed}
  IN  [store |-> s \ deleted, deletedCount |-> Cardinality(deleted)]

\* a turn of the loop whose catch block counts nothing
bulkUpsertStepUncounted(acc, turnoData, t, fails) ==
  LET fail == IF turnoData.fecha \in DOMAIN fails
              THEN fails[turnoData.fecha] ELSE "none"
      result == upsert(acc.store, turnoData, t, fail)
  IN  IF fail = "find" \/ result.status = "throw" THEN acc
      ELSE [acc EXCEPT !.store = result.store,
                       !.items = Append(@, result.resource),
                       !.updated = IF findByFecha(acc.store, turnoData.fecha,
                                        Get(turnoData, "personaId")) # {}
                                   THEN @ + 1 ELSE @,
                       !.inserted = IF findByFecha(acc.store, turnoData.fecha,
                                         Get(turnoData, "personaId")) # {}
                                    THEN @ ELSE @ + 1]

\* one turn of the loop of bulkUpsert: acc holds the container, the
\* counters, the warnings and the items so far; fails maps a fecha to the
\* storage call that fails for it
bulkUpsertStep(acc, turnoData, t, fails) ==
  LET fail == IF turnoData.fecha \in DOMAIN fails
              THEN fails[turnoData.fecha] ELSE "none"
      skippedAcc ==
        [acc EXCEPT !.skipped = @ + 1,
                    !.warnings = Append(@, [kind |-> "storage",
                                            fecha |-> turnoData.fecha])]
  IN  IF fail = "find" THEN skippedAcc
      ELSE
        LET existing == findByFecha(acc.store, turnoData.fecha,
                                    Get(turnoData, "personaId"))
            result == upsert(acc.store, turnoData, t, fail)
        IN  IF result.status = "throw" THEN skippedAcc
            ELSE [acc EXCEPT !.store = result.store,
                             !.items = Append(@, result.resource),
                             !.updated = IF existing # {} THEN @ + 1 ELSE @,
                             !.inserted = IF existing # {} THEN @ ELSE @ + 1]

\* the loop in input order; the accumulator of a turn is computed once
RECURSIVE bulkUpsertLoop(_, _, _, _)
bulkUpsertLoop(acc, turnosData, t, fails) ==
  IF turnosData = <<>> THEN acc
  ELSE CHOOSE end \in
         {bulkUpsertLoop(next, Tail(turnosData), t, fails) :
            next \in {bulkUpsertStep(acc, Head(turnosData), t, fails)}} : TRUE

\* items holds each stored document as a one-element set
bulkUpsert(s, turnosData, t, fails) ==
  bulkUpsertLoop([store |-> s, inserted |-> 0, updated |-> 0, skipped |-> 0,
                  warnings |-> <<>>, items |-> <<>>], turnosData, t, fails)

-----------------------------------------------------------------------------
(* JsonTurnoRepository: the repository of the development mode, over a     *)
(* JSON file that it only reads.  Its state j holds the items of the file, *)
(* whether the file can be read and parsed, the modification time of the   *)
(* file, the cache (empty for null, else the one array of documents) and   *)
(* lastModified.  A null of the file is UNDEFINED here: both are falsy.    *)

JsonThrown(j, error) ==
  [json |-> j, status |-> "throw", error |-> error, resource |-> {}]

JsonReturned(j, resource) ==
  [json |-> j, status |-> "ok", error |-> "none", resource |-> resource]

transformJsonToDocument(jsonItem, t) ==
  [ id |-> generateTurnoId(jsonItem.fecha, UNDEFINED),
    fecha |-> jsonItem.fecha,
    turno |-> IF Truthy(Get(jsonItem, "turno")) THEN jsonItem.turno
              ELSE UNDEFINED,
    startShift |-> IF Truthy(Get(jsonItem, "startShift"))
                   THEN jsonItem.startShift ELSE UNDEFINED,
    endShift |-> IF Truthy(Get(jsonItem, "endShift"))
                 THEN jsonItem.endShift ELSE UNDEFINED,
    esVacaciones |-> jsonItem.esVacaciones,
    notas |-> IF Truthy(Get(jsonItem, "notas")) THEN jsonItem.notas ELSE <<>>,
    createdAt |-> t,
    updatedAt |-> t ]

\* a check that trusts the cache whenever there is one
cacheValidForever(j, mtime) == j.cache # {}

\* this.cache && this.lastModified >= stats.mtime.getTime()
cacheValid(j, mtime) == j.cache # {} /\ j.lastModified >= mtime

\* the cache if it is there and not older than the file, else the file
\* read, transformed and cached; throws when the file cannot be loaded
loadData(j, t) ==
  IF ~j.readable THEN [json |-> j, status |-> "throw", data |-> <<>>]
  ELSE IF j.cache # {} /\ j.lastModified >= j.mtime
    THEN [json |-> j, status |-> "ok", data |-> CHOOSE c \in j.cache : TRUE]
  ELSE CHOOSE loaded \in
         { [json |-> [j EXCEPT !.cache = {docs}, !.lastModified = j.mtime],
            status |-> "ok", data |-> docs] :
           docs \in {[i \in 1..Len(j.file) |->
                        transformJsonToDocument(j.file[i], t)]} } : TRUE

\* an upsert that writes into the cache
jsonUpsertWriting(j, data, t) ==
  JsonReturned([j EXCEPT !.cache = {<<createTurnoDocument(data, t)>>}],
               {createTurnoDocument(data, t)})

jsonCreate(j, data, t) == JsonThrown(j, "read-only")

jsonUpdate(j, id, data, t) == JsonThrown(j, "read-only")

jsonDelete(j, id, partitionKey) == JsonThrown(j, "read-only")

jsonUpsert(j, data, t) == JsonThrown(j, "read-only")

jsonBulkUpsert(j, turnosData, t) == JsonThrown(j, "read-only")

jsonDeleteOlderThan(j, date) == JsonThrown(j, "read-only")

\* data.find(turno => turno.id === id) || null
jsonFindById(j, id, partitionKey, t) ==
  CHOOSE out \in
    { IF l.status = "throw" THEN JsonThrown(l.json, "load")
      ELSE LET found == {i \in DOMAIN l.data : l.data[i].id = id} IN
           JsonReturned(l.json,
             IF found = {} THEN {}
             ELSE {l.data[CHOOSE i \in found : \A k \in found : i <= k]}) :
      l \in {loadData(j, t)} } : TRUE

jsonFindByFecha(j, fecha, personaId, t) ==
  jsonFindById(j, generateTurnoId(fecha, personaId), fecha, t)

\* a.localeCompare(b) for dates in the canonical form: digits and hyphens
\* at the same places, so the collation order is the code unit order
localeCompare(a, b) == IF a = b THEN 0 ELSE IF StrLess(a, b) THEN -1 ELSE 1

\* Array.prototype.sort is stable: x goes behind the documents that do not
\* compare above it
InsertByFecha(sorted, x) ==
  LET k == Cardinality({i \in DOMAIN sorted :
                          localeCompare(sorted[i].fecha, x.fecha) <= 0})
  IN  SubSeq(sorted, 1, k) \o <<x>> \o SubSeq(sorted, k + 1, Len(sorted))

RECURSIVE SortByFecha(_, _)
SortByFecha(sorted, rest) ==
  IF rest = <<>> THEN sorted
  ELSE CHOOSE end \in
         {SortByFecha(next, Tail(rest)) :
            next \in {InsertByFecha(sorted, Head(rest))}} : TRUE

jsonFindByDateRange(j, from, to, personaId, t) ==
  CHOOSE out \in
    { IF l.status = "throw" THEN JsonThrown(l.json, "load")
      ELSE LET Match(turno) ==
                 /\ StrLeq(from, turno.fecha) /\ StrLeq(turno.fecha, to)
                 /\ (~Truthy(personaId) \/ Get(turno, "personaId") = personaId)
           IN  JsonReturned(l.json, SortByFecha(<<>>, SelectSeq(l.data, Match))) :
      l \in {loadData(j, t)} } : TRUE

\* the stable sort by b.fecha.localeCompare(a.fecha)
RECURSIVE SortByFechaDesc(_, _)
SortByFechaDesc(sorted, rest) ==
  IF rest = <<>> THEN sorted
  ELSE CHOOSE end \in
         {SortByFechaDesc(next, Tail(rest)) :
            next \in
              {LET x == Head(rest)
                   k == Cardinality({i \in DOMAIN sorted :
                          localeCompare(x.fecha, sorted[i].fecha) <= 0})
               IN  SubSeq(sorted, 1, k) \o <<x>>
                     \o SubSeq(sorted, k + 1, Len(sorted))}} : TRUE

jsonSearch(j, filters, t) ==
  CHOOSE out \in
    { IF l.status = "throw" THEN JsonThrown(l.json, "load")
      ELSE LET Keep(turno) ==
                 /\ ~(Truthy(Get(filters, "fecha"))
                        /\ turno.fecha # filters.fecha)
                 /\ ~(Truthy(Get(filters, "turno"))
                        /\ turno.turno # filters.turno)
                 /\ ~("esVacaciones" \in DOMAIN filters
                        /\ turno.esVacaciones # filters.esVacaciones)
                 /\ ~(Truthy(Get(filters, "personaId"))
                        /\ Get(turno, "personaId") # filters.personaId)
                 /\ ~(Truthy(Get(filters, "from"))
                        /\ StrLess(turno.fecha, filters.from))
                 /\ ~(Truthy(Get(filters, "to"))
                        /\ StrLess(filters.to, turno.fecha))
           IN  JsonReturned(l.json,
                 CHOOSE res \in
                   { [items |-> filteredData, total |-> Len(filteredData)] :
                     filteredData \in
                       {SortByFechaDesc(<<>>, SelectSeq(l.data, Keep))} } :
                   TRUE) :
      l \in {loadData(j, t)} } : TRUE

jsonGetStats(j, from, to, t) ==
  CHOOSE out \in
    { IF l.status = "throw" THEN JsonThrown(l.json, "load")
      ELSE LET Match(turno) ==
                 /\ ~(Truthy(from) /\ StrLess(turno.fecha, from))
                 /\ ~(Truthy(to) /\ StrLess(to, turno.fecha))
               filteredData == SelectSeq(l.data, Match)
               counted == {i \in DOMAIN filteredData :
                             /\ ~filteredData[i].esVacaciones
                             /\ Truthy(filteredData[i].turno)}
           IN  JsonReturned(l.json,
                 [total |-> Len(filteredData),
                  porTurno |->
                    [x \in {filteredData[i].turno : i \in counted} |->
                       Cardinality({i \in counted : filteredData[i].turno = x})],
                  vacaciones |->
                    Cardinality({i \in DOMAIN filteredData :
                                   filteredData[i].esVacaciones})]) :
      l \in {loadData(j, t)} } : TRUE

-----------------------------------------------------------------------------
(* services/turno.service.ts: upsertTurno *)

\* 'HH:MM'.split(':').map(Number) as minutes of the day
Minutes(time) ==
  LET parts == Split(time, ":") IN ParseInt(parts[1]) * 60 + ParseInt(parts[2])

\* a clear that forgets the two times
clearTurnoOnly(validatedData) ==
  IF validatedData.esVacaciones THEN Put(validatedData, "turno", UNDEFINED)
  ELSE validatedData

\* a clear that deletes the three keys where the code sets them to
\* undefined
clearOnVacationByDelete(validatedData) ==
  IF validatedData.esVacaciones
  THEN [k \in DOMAIN validatedData \ {"turno", "startShift", "endShift"} |->
          validatedData[k]]
  ELSE validatedData

\* if on vacation, turno and shift times are set to undefined
clearOnVacation(validatedData) ==
  IF validatedData.esVacaciones
  THEN Put(Put(Put(validatedData, "turno", UNDEFINED),
               "startShift", UNDEFINED), "endShift", UNDEFINED)
  ELSE validatedData

\* the rules without the pairing of the two times
businessRuleErrorUnpaired(validatedData) ==
  LET turno == Get(validatedData, "turno")
      startShift == Get(validatedData, "startShift")
      endShift == Get(validatedData, "endShift")
  IN  IF Truthy(turno) /\ validatedData.esVacaciones THEN "conflict"
      ELSE IF /\ Truthy(startShift) /\ Truthy(endShift)
              /\ Minutes(startShift) >= Minutes(endShift)
              /\ Minutes(endShift) # 0 THEN "order"
      ELSE "none"

\* the rules with > where the code has >=
businessRuleErrorStrict(validatedData) ==
  LET turno == Get(validatedData, "turno")
      startShift == Get(validatedData, "startShift")
      endShift == Get(validatedData, "endShift")
  IN  IF Truthy(turno) /\ validatedData.esVacaciones THEN "conflict"
      ELSE IF \/ Truthy(startShift) /\ ~Truthy(endShift)
              \/ ~Truthy(startShift) /\ Truthy(endShift) THEN "incomplete"
      ELSE IF /\ Truthy(startShift) /\ Truthy(endShift)
              /\ Minutes(startShift) > Minutes(endShift)
              /\ Minutes(endShift) # 0 THEN "order"
      ELSE "none"

\* the business rule that throws, in the order of the code, or "none"
businessRuleError(validatedData) ==
  LET turno == Get(validatedData, "turno")
      startShift == Get(validatedData, "startShift")
      endShift == Get(validatedData, "endShift")
  IN  IF Truthy(turno) /\ validatedData.esVacaciones THEN "conflict"
      ELSE IF \/ Truthy(startShift) /\ ~Truthy(endShift)
              \/ ~Truthy(startShift) /\ Truthy(endShift) THEN "incomplete"
      ELSE IF /\ Truthy(startShift) /\ Truthy(endShift)
              /\ Minutes(startShift) >= Minutes(endShift)
              /\ Minutes(endShift) # 0 THEN "order"
      ELSE "none"

\* an upsertTurno that checks the rules before it clears the shift
upsertTurnoRulesFirst(s, data, t, fail) ==
  IF turnoInsertIssues(data) # {}
  THEN [error |-> "zod", handed |-> {}, store |-> s, result |-> {}]
  ELSE
    LET parsed == turnoInsertSchema(data)
        fecha == normalizeDateInput(parsed.fecha)
        rule == businessRuleError(Put(parsed, "fecha", fecha.value))
        validatedData == clearOnVacation(Put(parsed, "fecha", fecha.value))
    IN  IF ~fecha.ok
        THEN [error |-> "date", handed |-> {}, store |-> s, result |-> {}]
        ELSE IF rule # "none"
        THEN [error |-> rule, handed |-> {}, store |-> s, result |-> {}]
        ELSE LET r == upsert(s, validatedData, t, fail) IN
             [error |-> IF r.status = "ok" THEN "none" ELSE r.error,
              handed |-> {validatedData}, store |-> r.store,
              result |-> r.resource]

\* an upsertTurno that writes the candidate before it checks the rules
upsertTurnoWriteFirst(s, data, t, fail) ==
  IF turnoInsertIssues(data) # {}
  THEN [error |-> "zod", handed |-> {}, store |-> s, result |-> {}]
  ELSE
    LET parsed == turnoInsertSchema(data)
        fecha == normalizeDateInput(parsed.fecha)
        validatedData == clearOnVacation(Put(parsed, "fecha", fecha.value))
        rule == businessRuleError(validatedData)
    IN  IF ~fecha.ok
        THEN [error |-> "date", handed |-> {}, store |-> s, result |-> {}]
        ELSE LET r == upsert(s, validatedData, t, fail) IN
             IF rule # "none"
             THEN [error |-> rule, handed |-> {}, store |-> r.store,
                   result |-> {}]
             ELSE [error |-> IF r.status = "ok" THEN "none" ELSE r.error,
                   handed |-> {validatedData}, store |-> r.store,
                   result |-> r.resource]

\* upsertTurno on container s at time t: the error ("none" when it returns),
\* the data handed to the repository, the container after it and the result
upsertTurno(s, data, t, fail) ==
  IF turnoInsertIssues(data) # {}
  THEN [error |-> "zod", handed |-> {}, store |-> s, result |-> {}]
  ELSE
    LET parsed == turnoInsertSchema(data)
        fecha == normalizeDateInput(parsed.fecha)
        validatedData == clearOnVacation(Put(parsed, "fecha", fecha.value))
        rule == businessRuleError(validatedData)
    IN  IF ~fecha.ok
        THEN [error |-> "date", handed |-> {}, store |-> s, result |-> {}]
        ELSE IF rule # "none"
        THEN [error |-> rule, handed |-> {}, store |-> s, result |-> {}]
        ELSE LET r == upsert(s, validatedData, t, fail) IN
             [error |-> IF r.status = "ok" THEN "none" ELSE r.error,
              handed |-> {validatedData}, store |-> r.store,
              result |-> r.resource]

-----------------------------------------------------------------------------
(* models/turno.model.ts: excelRowSchema.  A cell of a row is a string, a  *)
(* number, a boolean or undefined (an empty cell).  A field parses to      *)
(* "ok" with its value, to "issue" (a ZodError issue: wrong type) or to    *)
(* "throw" (the transform throws an Error).                                *)

Str(v) == [type |-> "string", str |-> v]
Num(n) == [type |-> "number", num |-> n]
Bool(b) == [type |-> "boolean", bool |-> b]
Empty == [type |-> "undefined"]

\* a row of a sheet: the six cells by header
MkRow(fecha, turno, startshift, endshift, vacaciones, notas) ==
  [fecha |-> fecha, turno |-> turno, startshift |-> startshift,
   endshift |-> endshift, vacaciones |-> vacaciones, notas |-> notas]

Ok(v) == [status |-> "ok", value |-> v]
Issue == [status |-> "issue"]
Throws == [status |-> "throw"]

IsDateSep(c) == c \in {"/", "-"}

\* /^(\d{1,2})[\/\-](\d{1,2})[\/\-](\d{4})$/: the lengths of the day and
\* the month groups of the match, if any
DateRegexMatch(s) ==
  {m \in {1, 2} \X {1, 2} :
     /\ Len(s) = m[1] + m[2] + 6
     /\ AllDigits(SubSeq(s, 1, m[1]))
     /\ IsDateSep(s[m[1] + 1])
     /\ AllDigits(SubSeq(s, m[1] + 2, m[1] + 1 + m[2]))
     /\ IsDateSep(s[m[1] + m[2] + 2])
     /\ AllDigits(SubSeq(s, m[1] + m[2] + 3, Len(s)))}

excelFecha(cell) ==
  IF cell.type # "string" THEN Issue
  ELSE LET cleaned == Trim(cell.str)
           match == DateRegexMatch(cleaned)
       IN  IF match # {} THEN
             LET m == CHOOSE x \in match : TRUE
                 day == SubSeq(cleaned, 1, m[1])
                 month == SubSeq(cleaned, m[1] + 2, m[1] + 1 + m[2])
                 year == SubSeq(cleaned, m[1] + m[2] + 3, Len(cleaned))
             IN  Ok(year \o <<"-">> \o PadStart(month, 2) \o <<"-">>
                      \o PadStart(day, 2))
           ELSE IF IsISODate(cleaned) THEN Ok(cleaned)
           ELSE Throws

excelTurno(cell) ==
  IF cell.type = "undefined" THEN Ok(UNDEFINED)
  ELSE IF cell.type # "string" THEN Issue
  ELSE Ok(Trim(ToLowerCase(cell.str)))

\* the (am|pm)? group of the time expression, case-insensitive
AmPm(s) ==
  IF Len(s) >= 2 /\ ToLowerCase(SubSeq(s, Len(s) - 1, Len(s)))
                      \in {<<"a", "m">>, <<"p", "m">>}
  THEN ToLowerCase(SubSeq(s, Len(s) - 1, Len(s)))
  ELSE <<>>

\* /^(\d{1,2}):?(\d{2})?\s*(am|pm)?$/i: the hours and minutes groups of the
\* match as a set, empty when the string does not match
TimeRegexMatch(s) ==
  LET ampm == AmPm(s)
      body == TrimEnd(IF ampm = <<>> THEN s ELSE SubSeq(s, 1, Len(s) - 2))
      parts == Split(body, ":")
  IN  IF Len(parts) = 1 THEN
        IF ~AllDigits(body) \/ Len(body) \notin 1..4 THEN {}
        ELSE IF Len(body) <= 2 THEN {[hours |-> body, minutes |-> UNDEFINED]}
        ELSE {[hours |-> SubSeq(body, 1, Len(body) - 2),
               minutes |-> SubSeq(body, Len(body) - 1, Len(body))]}
      ELSE IF Len(parts) = 2 THEN
        IF /\ AllDigits(parts[1]) /\ Len(parts[1]) \in {1, 2}
           /\ AllDigits(parts[2]) /\ Len(parts[2]) \in {0, 2}
        THEN {[hours |-> parts[1],
               minutes |-> IF parts[2] = <<>> THEN UNDEFINED ELSE parts[2]]}
        ELSE {}
      ELSE {}

\* a transform in which 12 am and 12 pm are both hour 12
excelTimeNoMidnight(cell) ==
  IF cell.type = "undefined" THEN Ok(UNDEFINED)
  ELSE IF cell.type # "string" THEN Issue
  ELSE IF Trim(cell.str) = <<>> THEN Ok(UNDEFINED)
  ELSE
    LET cleaned == Trim(cell.str)
        match == TimeRegexMatch(cleaned)
    IN  IF match # {} THEN
          LET m == CHOOSE x \in match : TRUE
              ampm == AmPm(cleaned)
              hours == ParseInt(m.hours)
              min == IF m.minutes = UNDEFINED THEN 0 ELSE ParseInt(m.minutes)
              hour == IF ampm = <<"p", "m">> /\ hours # 12 THEN hours + 12
                      ELSE hours
          IN  IF hour < 0 \/ hour > 23 \/ min < 0 \/ min > 59 THEN Throws
              ELSE Ok(PadStart(NumToString(hour), 2) \o <<":">>
                        \o PadStart(NumToString(min), 2))
        ELSE IF IsTime24(cleaned) THEN Ok(cleaned)
        ELSE Throws

\* the transform of startshift and of endshift
excelTime(cell) ==
  IF cell.type = "undefined" THEN Ok(UNDEFINED)
  ELSE IF cell.type # "string" THEN Issue
  ELSE IF Trim(cell.str) = <<>> THEN Ok(UNDEFINED)
  ELSE
    LET cleaned == Trim(cell.str)
        match == TimeRegexMatch(cleaned)
    IN  IF match # {} THEN
          LET m == CHOOSE x \in match : TRUE
              ampm == AmPm(cleaned)
              hours == ParseInt(m.hours)
              min == IF m.minutes = UNDEFINED THEN 0 ELSE ParseInt(m.minutes)
              hour == IF ampm = <<"a", "m">> /\ hours = 12 THEN 0
                      ELSE IF ampm = <<"p", "m">> /\ hours # 12 THEN hours + 12
                      ELSE hours
          IN  IF hour < 0 \/ hour > 23 \/ min < 0 \/ min > 59 THEN Throws
              ELSE Ok(PadStart(NumToString(hour), 2) \o <<":">>
                        \o PadStart(NumToString(min), 2))
        ELSE IF IsTime24(cleaned) THEN Ok(cleaned)
        ELSE Throws

TrueWords ==
  {<<"s", "í">>, <<"s", "i">>, <<"t", "r", "u", "e">>, <<"1">>}

\* a transform that compares the string as it is
excelVacacionesExact(cell) ==
  IF cell.type = "boolean" THEN Ok(cell.bool)
  ELSE IF cell.type = "number" THEN Ok(cell.num = 1)
  ELSE IF cell.type = "string" THEN Ok(cell.str \in TrueWords)
  ELSE Issue

\* a union without z.boolean()
excelVacacionesNoBoolean(cell) ==
  IF cell.type = "number" THEN Ok(cell.num = 1)
  ELSE IF cell.type = "string"
    THEN Ok(Trim(ToLowerCase(cell.str)) \in TrueWords)
  ELSE Issue

excelVacaciones(cell) ==
  IF cell.type = "boolean" THEN Ok(cell.bool)
  ELSE IF cell.type = "number" THEN Ok(cell.num = 1)
  ELSE IF cell.type = "string"
    THEN Ok(Trim(ToLowerCase(cell.str)) \in TrueWords)
  ELSE Issue

excelNotas(cell) ==
  IF cell.type = "undefined" THEN Ok(<<>>)
  ELSE IF cell.type # "string" THEN Issue
  ELSE Ok(Trim(cell.str))

\* excelRowSchema.parse(row): "ok" with the parsed row, "throw" when a
\* transform throws, "issue" when only types are wrong
excelRowSchema(row) ==
  LET parsed == [fecha |-> excelFecha(row.fecha),
                 turno |-> excelTurno(row.turno),
                 startshift |-> excelTime(row.startshift),
                 endshift |-> excelTime(row.endshift),
                 vacaciones |-> excelVacaciones(row.vacaciones),
                 notas |-> excelNotas(row.notas)]
  IN  IF \E k \in DOMAIN parsed : parsed[k].status = "throw" THEN Throws
      ELSE IF \E k \in DOMAIN parsed : parsed[k].status = "issue" THEN Issue
      ELSE Ok([k \in DOMAIN parsed |-> parsed[k].value])

-----------------------------------------------------------------------------
(* services/turno.service.ts: processExcelData *)

\* a turno object that keeps the shift of a vacation row
turnoDataOfUncleared(validatedRow) ==
  [ fecha |-> validatedRow.fecha,
    turno |-> validatedRow.turno,
    startShift |-> validatedRow.startshift,
    endShift |-> validatedRow.endshift,
    esVacaciones |-> validatedRow.vacaciones,
    notas |-> IF Truthy(validatedRow.notas) THEN validatedRow.notas ELSE <<>> ]

\* the turno object built from a validated row
turnoDataOf(validatedRow) ==
  [ fecha |-> validatedRow.fecha,
    turno |-> IF validatedRow.vacaciones THEN UNDEFINED
              ELSE validatedRow.turno,
    startShift |-> IF validatedRow.vacaciones THEN UNDEFINED
                   ELSE validatedRow.startshift,
    endShift |-> IF validatedRow.vacaciones THEN UNDEFINED
                 ELSE validatedRow.endshift,
    esVacaciones |-> validatedRow.vacaciones,
    notas |-> IF Truthy(validatedRow.notas) THEN validatedRow.notas ELSE <<>> ]

\* a first loop that numbers the rows without the header row
validateRowHeaderless(excelData, i, acc) ==
  LET rowNumber == (i - 1) + 1 IN
  CHOOSE next \in
    { IF parsed.status = "ok" THEN
        [warnings |->
           IF parsed.value.vacaciones /\ Truthy(parsed.value.turno)
           THEN Append(acc.warnings, [kind |-> "priority", row |-> rowNumber])
           ELSE acc.warnings,
         validRows |-> Append(acc.validRows, turnoDataOf(parsed.value))]
      ELSE
        [warnings |-> Append(acc.warnings,
                        [kind |-> "row", row |-> rowNumber,
                         cause |-> parsed.status]),
         validRows |-> acc.validRows] :
      parsed \in {excelRowSchema(excelData[i])} } : TRUE

\* one turn of the first loop: row i of excelData (row number i + 1 with
\* the header offset of the code, which counts i from 0) adds to warnings
\* and validRows
validateRow(excelData, i, acc) ==
  LET rowNumber == (i - 1) + 2 IN
  CHOOSE next \in
    { IF parsed.status = "ok" THEN
        [warnings |->
           IF parsed.value.vacaciones /\ Truthy(parsed.value.turno)
           THEN Append(acc.warnings, [kind |-> "priority", row |-> rowNumber])
           ELSE acc.warnings,
         validRows |-> Append(acc.validRows, turnoDataOf(parsed.value))]
      ELSE
        [warnings |-> Append(acc.warnings,
                        [kind |-> "row", row |-> rowNumber,
                         cause |-> parsed.status]),
         validRows |-> acc.validRows] :
      parsed \in {excelRowSchema(excelData[i])} } : TRUE

RECURSIVE validateRows(_, _, _)
validateRows(excelData, i, acc) ==
  IF i > Len(excelData) THEN acc
  ELSE CHOOSE end \in
         {validateRows(excelData, i + 1, next) :
            next \in {validateRow(excelData, i, acc)}} : TRUE

\* a second loop in which the later row of a fecha takes the place of the
\* earlier one
uniqueRowLastWins(row, acc) ==
  IF row.fecha \in acc.fechasVistas
  THEN [acc EXCEPT !.warnings =
          Append(@, [kind |-> "duplicate", fecha |-> row.fecha]),
        !.uniqueRows =
          [k \in DOMAIN @ |-> IF @[k].fecha = row.fecha THEN row ELSE @[k]]]
  ELSE [acc EXCEPT !.fechasVistas = @ \cup {row.fecha},
                   !.uniqueRows = Append(@, row)]

\* a second loop that drops no row
uniqueRowKeepAll(row, acc) ==
  [acc EXCEPT !.fechasVistas = @ \cup {row.fecha},
              !.uniqueRows = Append(@, row)]

\* one turn of the second loop: a fecha seen before in the file is dropped
\* with a warning
uniqueRow(row, acc) ==
  IF row.fecha \in acc.fechasVistas
  THEN [acc EXCEPT !.warnings =
          Append(@, [kind |-> "duplicate", fecha |-> row.fecha])]
  ELSE [acc EXCEPT !.fechasVistas = @ \cup {row.fecha},
                   !.uniqueRows = Append(@, row)]

RECURSIVE uniqueRowsOf(_, _)
uniqueRowsOf(validRows, acc) ==
  IF validRows = <<>> THEN acc
  ELSE CHOOSE end \in
         {uniqueRowsOf(Tail(validRows), next) :
            next \in {uniqueRow(Head(validRows), acc)}} : TRUE

\* the result object: the bulk result with warnings set to the local list
resultOf(bulk, warnings) ==
  [inserted |-> bulk.inserted, updated |-> bulk.updated,
   skipped |-> bulk.skipped, items |-> bulk.items, warnings |-> warnings]

processExcelData(s, excelData, t, fails) ==
  CHOOSE out \in
    { [validRows |-> validated.validRows, uniqueRows |-> deduped.uniqueRows,
       bulk |-> bulk, store |-> bulk.store,
       result |-> resultOf(bulk, deduped.warnings)] :
      <<validated, deduped, bulk>> \in
        { <<v, d, bulkUpsert(s, d.uniqueRows, t, fails)>> :
            <<v, d>> \in
              { <<v, uniqueRowsOf(v.validRows,
                     [fechasVistas |-> {}, uniqueRows |-> <<>>,
                      warnings |-> v.warnings])>> :
                  v \in {validateRows(excelData, 1,
                           [warnings |-> <<>>, validRows |-> <<>>])} } } } : TRUE

-----------------------------------------------------------------------------
(* services/turno.service.ts: validateExcelFile, and the upload handler of *)
(* controllers/turno.controller.ts.  An uploaded file is its name, its     *)
(* size in bytes and the data rows of its first sheet, each row already    *)
(* keyed by the lowercased, trimmed header of its column.                  *)

EndsWith(s, suffix) ==
  /\ Len(s) >= Len(suffix)
  /\ SubSeq(s, Len(s) - Len(suffix) + 1, Len(s)) = suffix

\* parseInt(process.env.MAX_UPLOAD_MB || '5') * 1024 * 1024
maxSizeOf(maxUploadMb) ==
  ParseInt(IF Truthy(maxUploadMb) THEN maxUploadMb ELSE <<"5">>) * 1024 * 1024

\* a check that compares the file name as it is
validateExcelFileCaseSensitive(file, maxUploadMb) ==
  LET errors ==
        (IF file.size > maxSizeOf(maxUploadMb) THEN <<"size">> ELSE <<>>)
        \o (IF ~EndsWith(file.originalname, <<".", "x", "l", "s", "x">>)
            THEN <<"type">> ELSE <<>>)
        \o (IF file.size = 0 THEN <<"empty">> ELSE <<>>)
  IN  [valid |-> Len(errors) = 0, errors |-> errors]

validateExcelFile(file, maxUploadMb) ==
  LET errors ==
        (IF file.size > maxSizeOf(maxUploadMb) THEN <<"size">> ELSE <<>>)
        \o (IF ~EndsWith(ToLowerCase(file.originalname),
                         <<".", "x", "l", "s", "x">>)
            THEN <<"type">> ELSE <<>>)
        \o (IF file.size = 0 THEN <<"empty">> ELSE <<>>)
  IN  [valid |-> Len(errors) = 0, errors |-> errors]

\* a value of a parsed row as the cell the service's parse sees
CellOf(v) == IF v = UNDEFINED THEN Empty ELSE Str(v)

\* the controller's loop over the rows: a row that parses is replaced by
\* its parsed value, a row that does not is handed on as it is
preValidate(row) ==
  CHOOSE out \in
    { IF parsed.status = "ok"
      THEN MkRow(Str(parsed.value.fecha), CellOf(parsed.value.turno),
                 CellOf(parsed.value.startshift), CellOf(parsed.value.endshift),
                 Bool(parsed.value.vacaciones), Str(parsed.value.notas))
      ELSE row : parsed \in {excelRowSchema(row)} } : TRUE

\* POST /turnos/excel: the response status, the errors of the file check,
\* whether the workbook was read, the result of the service and the
\* container after the request; files is req.file as a set
processExcelUpload(s, files, maxUploadMb, t, fails) ==
  IF files = {}
  THEN [status |-> 400, details |-> <<>>, read |-> FALSE, result |-> {},
        store |-> s]
  ELSE
    LET file == CHOOSE f \in files : TRUE
        fileValidation == validateExcelFile(file, maxUploadMb)
    IN  IF ~fileValidation.valid
        THEN [status |-> 400, details |-> fileValidation.errors,
              read |-> FALSE, result |-> {}, store |-> s]
        ELSE IF file.rows = <<>>
        THEN [status |-> 400, details |-> <<>>, read |-> TRUE,
              result |-> {}, store |-> s]
        ELSE CHOOSE out \in
               { [status |-> 200, details |-> <<>>, read |-> TRUE,
                  result |-> {[input |-> validatedData,
                               validRows |-> r.validRows,
                               output |-> r.result]},
                  store |-> r.store] :
                 <<validatedData, r>> \in
                   { <<v, processExcelData(s, v, t, fails)>> :
                       v \in {[i \in DOMAIN file.rows |->
                                 preValidate(file.rows[i])]} } } : TRUE

-----------------------------------------------------------------------------
(* controllers/turno.controller.ts: POST /turnos and GET /turnos/:fecha.   *)
(* A message is the sequence of its words.                                 *)

\* the message of the Error that upsertTurno throws for an error of the
\* service; a storage error carries the SDK's message
MessageOf(error) ==
  CASE error = "conflict" ->
         <<"No", "se", "puede", "tener", "un", "turno", "específico", "y",
           "marcar", "como", "vacaciones", "al", "mismo", "tiempo">>
    [] error = "incomplete" ->
         <<"Debe", "proporcionar", "tanto", "la", "hora", "de", "inicio",
           "como", "la", "hora", "de", "fin", "del", "turno,", "o", "ninguna",
           "de", "las", "dos">>
    [] error = "order" ->
         <<"La", "hora", "de", "inicio", "debe", "ser", "anterior", "a", "la",
           "hora", "de", "fin", "(excepto", "para", "turnos", "nocturnos",
           "que", "cruzan", "medianoche)">>
    [] error = "zod" -> <<"Datos", "inválidos:">>
    [] error = "date" -> <<"Formato", "de", "fecha", "inválido.">>
    [] error = "Ya existe un turno" ->
         <<"Ya", "existe", "un", "turno", "para", "la", "fecha">>
    [] OTHER -> <<"storage">>

\* message.includes(word), for a word that no other word of the messages
\* contains
Includes(message, word) == \E i \in DOMAIN message : message[i] = word

\* POST /turnos: 400 when the body fails the schema, 201 with the record,
\* 400 when the message of the error includes 'vacaciones', else 500
postUpsertTurno(s, body, t, fail) ==
  IF turnoInsertIssues(body) # {}
  THEN [status |-> 400, error |-> "zod", store |-> s, result |-> {}]
  ELSE CHOOSE out \in
         { [status |-> IF r.error = "none" THEN 201
                       ELSE IF Includes(MessageOf(r.error), "vacaciones")
                       THEN 400 ELSE 500,
            error |-> r.error, store |-> r.store, result |-> r.result] :
           r \in {upsertTurno(s, turnoInsertSchema(body), t, fail)} } : TRUE

\* GET /turnos/:fecha: 400 for a fecha out of form, 500 when the read
\* throws, 404 when it finds nothing, else 200 with the record
getTurnoByFecha(s, fecha, personaId, fail) ==
  IF ~IsISODate(fecha) THEN [status |-> 400, result |-> {}]
  ELSE IF fail = "find" THEN [status |-> 500, result |-> {}]
  ELSE LET turno == findByFecha(s, fecha, personaId) IN
       IF turno = {} THEN [status |-> 404, result |-> {}]
       ELSE [status |-> 200, result |-> turno]

-----------------------------------------------------------------------------
(* Requests *)

\* marks an optional key the request does not carry
NoKey == <<"no key">>

Opt(k, v) == IF v = NoKey THEN <<>> ELSE [x \in {k} |-> v]

\* a request body after the controller's safeParse: esVacaciones and notas
\* are always there, the optional keys only when sent
MkTurnoInsert(fecha, turno, startShift, endShift, esVacaciones, notas, personaId) ==
  Spread(Spread(Spread(Spread(
    [fecha |-> fecha, esVacaciones |-> esVacaciones, notas |-> notas],
    Opt("turno", turno)), Opt("startShift", startShift)),
    Opt("endShift", endShift)), Opt("personaId", personaId))

D1 == <<"2", "0", "2", "5", "-", "0", "1", "-", "0", "1">>
D2 == <<"2", "0", "2", "5", "-", "0", "1", "-", "0", "2">>
Manana == <<"m", "a", "ñ", "a", "n", "a">>
Tarde == <<"t", "a", "r", "d", "e">>
Noche == <<"n", "o", "c", "h", "e">>

T0000 == <<"0", "0", ":", "0", "0">>
T0600 == <<"0", "6", ":", "0", "0">>
T0700 == <<"0", "7", ":", "0", "0">>
T1500 == <<"1", "5", ":", "0", "0">>
T2200 == <<"2", "2", ":", "0", "0">>

\* the candidates of one validation: dates in and out of canonical form,
\* shift types in and out of the enumeration, times in and out of HH:MM
FechaInputs == {D1, <<"1", "/", "1", "/", "2", "0", "2", "5">>, <<"2", "0", "2", "5", "-", "1", "-", "1">>}
TurnoTypeInputs == {NoKey, Manana, Noche, <<"t", "a", "r", "d", "e", "s">>}
StartInputs == {NoKey, T0700, T1500, T2200, <<"7", ":", "0", "0">>, <<"2", "4", ":", "0", "0">>}
EndInputs == {NoKey, T0000, T0600, T1500, T2200, <<"1", "5", ":", "6", "0">>}

ValidationInputs ==
  {MkTurnoInsert(f, tu, st, en, v, <<>>, NoKey) :
     f \in FechaInputs, tu \in TurnoTypeInputs, st \in StartInputs,
     en \in EndInputs, v \in BOOLEAN}

\* the candidates of POST /turnos, for each of two dates: a full working
\* day, a body with the required keys only, a vacation day that carries a
\* shift type and both times, an overnight shift, one time only, end before
\* start
TurnoInputs ==
  UNION {{ MkTurnoInsert(f, Manana, T0700, T1500, FALSE, <<"x">>, NoKey),
           MkTurnoInsert(f, NoKey, NoKey, NoKey, FALSE, <<>>, NoKey),
           MkTurnoInsert(f, Tarde, T0700, T1500, TRUE, <<>>, NoKey),
           MkTurnoInsert(f, Noche, T2200, T0000, FALSE, <<>>, NoKey),
           MkTurnoInsert(f, NoKey, T1500, NoKey, FALSE, <<>>, NoKey),
           MkTurnoInsert(f, Manana, T2200, T0600, FALSE, <<>>, NoKey) } :
         f \in {D1, D2}}

\* the rows of a sheet: a working day in relaxed notation, the same date
\* day-first with a shift type outside the enumeration and a shift that
\* ends before it starts, a vacation day that carries a shift type and one
\* time, a date in no accepted form, a row without the vacation cell
ExcelRows ==
  { MkRow(Str(D1), Str(<<" ", "M", "a", "ñ", "a", "n", "a">>), Str(<<"7">>), Str(<<"3", " ", "P", "M">>), Num(0), Empty),
    MkRow(Str(<<"1", "/", "1", "/", "2", "0", "2", "5">>), Str(<<"t", "a", "r", "d", "e", "s">>), Str(T2200), Str(T0600), Str(<<"n", "o">>), Str(<<"x">>)),
    MkRow(Str(D2), Str(Noche), Str(T2200), Empty, Str(<<"S", "í">>), Empty),
    MkRow(Str(<<"2", "0", "2", "5", "/", "0", "1", "/", "0", "1">>), Str(Tarde), Empty, Empty, Bool(FALSE), Empty),
    MkRow(Str(D1), Str(Tarde), Empty, Empty, Empty, Empty) }

MaxRows == 2

ExcelInputs == UNION {[1..n -> ExcelRows] : n \in 0..MaxRows}

\* which storage call fails for which fecha during a bulk upsert
FailMaps ==
  { [f \in {D1, D2} |-> "none"],
    [f \in {D1, D2} |-> IF f = D1 THEN "write" ELSE "none"],
    [f \in {D1, D2} |-> IF f = D2 THEN "find" ELSE "none"] }

\* which storage call fails for which fecha during an import
ExcelFailMaps ==
  { [f \in {D1, D2} |-> "none"],
    [f \in {D1, D2} |-> IF f = D1 THEN "write" ELSE "none"] }

MaxRequests == 1

MaxValidateOps == 1

-----------------------------------------------------------------------------
(* State: the container, the clock (one tick per request) and the last     *)
(* request with what it returned and the container before it.  The         *)
(* container outlives the process: at start it is empty or holds a working *)
(* day that an earlier request stored.  calls holds the calls of upsert    *)
(* that are in flight, each with its position.                             *)

SeedStores ==
  { {},
    upsert({}, MkTurnoInsert(D1, Manana, T0700, T1500, FALSE, <<"x">>, NoKey),
           0, "none").store }

\* the repository of the development mode at construction, over file
JsonStart(file) ==
  [file |-> file, readable |-> TRUE, mtime |-> 0, cache |-> {},
   lastModified |-> 0]

Init ==
  /\ store \in SeedStores
  /\ now = 0
  /\ last = [op |-> "none"]
  /\ json = JsonStart(<<>>)
  /\ calls = <<>>

\* POST /turnos: TurnoService.upsertTurno
UpsertTurnoWith(data, fail) ==
  \E r \in {upsertTurno(store, data, now + 1, fail)} :
  /\ store' = r.store
  /\ now' = now + 1
  /\ UNCHANGED <<json, calls>>
  /\ last' = [op |-> "upsertTurno", input |-> data, fail |-> fail,
              error |-> r.error, handed |-> r.handed, result |-> r.result,
              before |-> store]

UpsertTurno ==
  /\ now < MaxRequests
  /\ \E data \in TurnoInputs, fail \in FailPoints : UpsertTurnoWith(data, fail)

\* POST /turnos/excel: TurnoService.processExcelData
ProcessExcelData ==
  /\ now < MaxRequests
  /\ \E excelData \in ExcelInputs, fails \in ExcelFailMaps :
     \E r \in {processExcelData(store, excelData, now + 1, fails)} :
       /\ store' = r.store
       /\ now' = now + 1
       /\ UNCHANGED <<json, calls>>
       /\ last' = [op |-> "processExcelData", input |-> excelData,
                   fails |-> fails, validRows |-> r.validRows,
                   uniqueRows |-> r.uniqueRows, bulk |-> r.bulk,
                   result |-> r.result, before |-> store]

Next == UpsertTurno \/ ProcessExcelData

Spec == Init /\ [][Next]_vars

ValidateTurno ==
  /\ now < MaxValidateOps
  /\ \E data \in ValidationInputs : UpsertTurnoWith(data, "none")

SpecValidate == Init /\ [][ValidateTurno]_vars

-----------------------------------------------------------------------------
(* One import of a sheet of up to MaxSheetRows rows, as the first request  *)
(* of the process.                                                         *)

\* the rows of the sheet: a morning and an afternoon of the same date, a
\* vacation day, a vacation day (day-first date) that carries a shift type
\* and both times, a date in no accepted form, a time out of range, a date
\* cell that holds a number
SheetMorning == MkRow(Str(D1), Str(Manana), Empty, Empty, Bool(FALSE), Empty)
SheetAfternoon == MkRow(Str(D1), Str(Tarde), Empty, Empty, Bool(FALSE), Empty)
SheetVacation == MkRow(Str(D2), Empty, Empty, Empty, Bool(TRUE), Empty)
SheetVacationShift ==
  MkRow(Str(<<"1", "/", "1", "/", "2", "0", "2", "5">>), Str(Noche),
        Str(<<"2", "2">>), Str(<<"6", " ", "a", "m">>), Str(<<"s", "i">>), Empty)
SheetBadDate ==
  MkRow(Str(<<"2", "0", "2", "5", "/", "0", "1", "/", "0", "1">>), Str(Tarde),
        Empty, Empty, Bool(FALSE), Empty)
SheetBadTime ==
  MkRow(Str(D2), Str(Tarde), Str(<<"2", "5", ":", "0", "0">>), Empty,
        Bool(FALSE), Empty)
SheetBadType == MkRow(Num(45658), Str(Manana), Empty, Empty, Bool(FALSE), Empty)

SheetRows ==
  { SheetMorning, SheetAfternoon, SheetVacation, SheetVacationShift,
    SheetBadDate, SheetBadTime, SheetBadType }

MaxSheetRows == 3

SheetInputs == UNION {[1..n -> SheetRows] : n \in 0..MaxSheetRows}

\* POST /turnos/excel as the first request
ImportSheet ==
  /\ last.op = "none"
  /\ \E excelData \in SheetInputs, fails \in ExcelFailMaps :
     \E r \in {processExcelData(store, excelData, now + 1, fails)} :
       /\ store' = r.store
       /\ now' = now + 1
       /\ UNCHANGED <<json, calls>>
       /\ last' = [op |-> "processExcelData", input |-> excelData,
                   fails |-> fails, validRows |-> r.validRows,
                   uniqueRows |-> r.uniqueRows, bulk |-> r.bulk,
                   result |-> r.result, before |-> store]

SpecImport == Init /\ [][ImportSheet]_vars

-----------------------------------------------------------------------------
(* The repository called directly: every mutating method of                *)
(* TurnoRepository on the container.                                       *)

P1 == <<"p">>
D3 == <<"2", "0", "2", "5", "-", "0", "1", "-", "0", "3">>

RepoInputs ==
  {MkTurnoInsert(f, x[1], NoKey, NoKey, FALSE, <<>>, x[2]) :
     f \in {D1, D2}, x \in {<<NoKey, NoKey>>, <<Manana, P1>>}}

\* TurnoUpdate: any part of a TurnoInsert
UpdateInputs ==
  { [personaId |-> P1], [notas |-> <<"x">>], [fecha |-> D2, turno |-> Tarde] }

MaxBulk == 2

BulkInputs == UNION {[1..n -> RepoInputs] : n \in 0..MaxBulk}

MaxRepoOps == 1

Create ==
  /\ now < MaxRepoOps
  /\ \E data \in RepoInputs, fail \in {"none", "write"} :
     \E r \in {create(store, data, now + 1, fail)} :
       /\ store' = r.store
       /\ now' = now + 1
       /\ UNCHANGED <<json, calls>>
       /\ last' = [op |-> "create", input |-> data, status |-> r.status,
                   before |-> store]

Update ==
  /\ now < MaxRepoOps
  /\ \E id \in {d.id : d \in store} \cup {D2}, data \in UpdateInputs,
        fail \in {"none", "write"} :
     \E r \in {update(store, id, data, now + 1, fail)} :
       /\ store' = r.store
       /\ now' = now + 1
       /\ UNCHANGED <<json, calls>>
       /\ last' = [op |-> "update", id |-> id, input |-> data,
                   status |-> r.status, result |-> r.resource,
                   before |-> store]

Delete ==
  /\ now < MaxRepoOps
  /\ \E id \in {d.id : d \in store} \cup {D2}, partitionKey \in {D1, D2},
        fail \in {"none", "write"} :
     \E r \in {delete(store, id, partitionKey, fail)} :
       /\ store' = r.store
       /\ now' = now + 1
       /\ UNCHANGED <<json, calls>>
       /\ last' = [op |-> "delete", id |-> id, status |-> r.status,
                   deleted |-> r.deleted, before |-> store]

Upsert ==
  /\ now < MaxRepoOps
  /\ \E data \in RepoInputs, fail \in FailPoints :
     \E r \in {upsert(store, data, now + 1, fail)} :
       /\ store' = r.store
       /\ now' = now + 1
       /\ UNCHANGED <<json, calls>>
       /\ last' = [op |-> "upsert", input |-> data, status |-> r.status,
                   before |-> store]

BulkUpsert ==
  /\ now < MaxRepoOps
  /\ \E turnosData \in BulkInputs, fails \in FailMaps :
     \E r \in {bulkUpsert(store, turnosData, now + 1, fails)} :
       /\ store' = r.store
       /\ now' = now + 1
       /\ UNCHANGED <<json, calls>>
       /\ last' = [op |-> "bulkUpsert", input |-> turnosData,
                   fails |-> fails, bulk |-> r, before |-> store]

\* deleteOlderThan as one of at most maxOps operations
DeleteOlderThanWithin(maxOps) ==
  /\ now < maxOps
  /\ \E date \in {D2, D3}, failed \in {{}, {D1}} :
     \E r \in {deleteOlderThan(store, date, failed)} :
       /\ store' = r.store
       /\ now' = now + 1
       /\ UNCHANGED <<json, calls>>
       /\ last' = [op |-> "deleteOlderThan", date |-> date,
                   failed |-> failed, deletedCount |-> r.deletedCount,
                   before |-> store]

DeleteOlderThan == DeleteOlderThanWithin(MaxRepoOps)

NextRepo ==
  Create \/ Update \/ Delete \/ Upsert \/ BulkUpsert \/ DeleteOlderThan

SpecRepo == Init /\ [][NextRepo]_vars

-----------------------------------------------------------------------------
(* Queries on a container that holds what earlier requests stored: the     *)
(* range query of GET /turnos, the statistics of GET /turnos/stats and the *)
(* cleanup of DELETE /turnos/cleanup, between requests that store records. *)

\* the bodies of POST /turnos: a working day, a vacation day, a day with
\* neither a shift type nor the vacation flag, a working day of a person
QueryInputs ==
  { MkTurnoInsert(D1, Manana, T0700, T1500, FALSE, <<>>, NoKey),
    MkTurnoInsert(D2, NoKey, NoKey, NoKey, TRUE, <<>>, NoKey),
    MkTurnoInsert(D3, NoKey, NoKey, NoKey, FALSE, <<>>, NoKey),
    MkTurnoInsert(D1, Tarde, NoKey, NoKey, FALSE, <<>>, P1) }

\* the container after the requests of reqs, in order, at time 0
RECURSIVE StoredBy(_, _)
StoredBy(s, reqs) ==
  IF reqs = <<>> THEN s
  ELSE CHOOSE end \in
         {StoredBy(next, Tail(reqs)) :
            next \in {upsertTurno(s, Head(reqs), 0, "none").store}} : TRUE

QuerySeedStores ==
  { {},
    StoredBy({}, << MkTurnoInsert(D1, Manana, T0700, T1500, FALSE, <<>>, NoKey),
                    MkTurnoInsert(D2, NoKey, NoKey, NoKey, TRUE, <<>>, NoKey),
                    MkTurnoInsert(D3, NoKey, NoKey, NoKey, FALSE, <<>>, NoKey) >>),
    StoredBy({}, << MkTurnoInsert(D1, Manana, T0700, T1500, FALSE, <<>>, NoKey),
                    MkTurnoInsert(D1, Tarde, NoKey, NoKey, FALSE, <<>>, P1),
                    MkTurnoInsert(D2, Noche, T2200, T0600, TRUE, <<>>, NoKey),
                    MkTurnoInsert(D3, Noche, NoKey, NoKey, FALSE, <<>>, P1) >>) }

JsonItem(fecha, turno, esVacaciones, notas) ==
  [fecha |-> fecha, turno |-> turno, esVacaciones |-> esVacaciones,
   notas |-> notas]

\* the files of data/turno.json: out of date order with two items of one
\* date and an item with neither a shift type nor the vacation flag; two
\* working days; no item
JsonFiles ==
  { << JsonItem(D2, UNDEFINED, TRUE, <<>>),
       JsonItem(D1, Manana, FALSE, <<"x">>),
       JsonItem(D3, UNDEFINED, FALSE, <<>>),
       JsonItem(D1, Tarde, FALSE, <<>>) >>,
    << JsonItem(D3, Noche, FALSE, <<>>),
       JsonItem(D1, Manana, FALSE, <<>>) >>,
    << >> }

InitQuery ==
  /\ store \in QuerySeedStores
  /\ now = 0
  /\ last = [op |-> "none"]
  /\ json \in {JsonStart(file) : file \in JsonFiles}
  /\ calls = <<>>

MaxQueryOps == 1

\* the ranges asked for: one day, two days, all three, from after to
RangeInputs ==
  {<<D1, D1>>, <<D1, D2>>, <<D2, D3>>, <<D1, D3>>, <<D3, D1>>}

StoreTurno ==
  /\ now < MaxQueryOps
  /\ \E data \in QueryInputs : UpsertTurnoWith(data, "none")

FindByDateRange ==
  /\ now < MaxQueryOps
  /\ \E range \in RangeInputs, personaId \in {UNDEFINED, <<>>, P1},
        idAsc \in BOOLEAN :
     \E r \in {findByDateRange(store, range[1], range[2], personaId, idAsc)} :
       /\ now' = now + 1
       /\ UNCHANGED <<json, calls>>
       /\ last' = [op |-> "findByDateRange", from |-> range[1],
                   to |-> range[2], personaId |-> personaId, result |-> r,
                   before |-> store]
       /\ UNCHANGED store

GetStats ==
  /\ now < MaxQueryOps
  /\ \E from \in {UNDEFINED, D2}, to \in {UNDEFINED, D2} :
     \E r \in {getStats(store, from, to)} :
       /\ now' = now + 1
       /\ UNCHANGED <<json, calls>>
       /\ last' = [op |-> "getStats", from |-> from, to |-> to,
                   result |-> r, before |-> store]
       /\ UNCHANGED store

CleanupOldData == DeleteOlderThanWithin(MaxQueryOps)

\* what a method of JsonTurnoRepository leaves behind
JsonDone(op, input, r) ==
  /\ json' = r.json
  /\ now' = now + 1
  /\ last' = [op |-> op, input |-> input, status |-> r.status,
              error |-> r.error, result |-> r.resource, before |-> json,
              prev |-> last.op]
  /\ UNCHANGED <<store, calls>>

JsonFindByDateRangeWithin(maxOps) ==
  /\ now < maxOps
  /\ \E range \in RangeInputs, personaId \in {UNDEFINED, P1} :
     \E r \in {jsonFindByDateRange(json, range[1], range[2], personaId,
                                    now + 1)} :
       JsonDone("jsonFindByDateRange",
                [from |-> range[1], to |-> range[2], personaId |-> personaId], r)

JsonGetStatsWithin(maxOps) ==
  /\ now < maxOps
  /\ \E from \in {UNDEFINED, D2}, to \in {UNDEFINED, D2} :
     \E r \in {jsonGetStats(json, from, to, now + 1)} :
       JsonDone("jsonGetStats", [from |-> from, to |-> to], r)

NextQuery ==
  \/ StoreTurno \/ FindByDateRange \/ GetStats \/ CleanupOldData
  \/ JsonFindByDateRangeWithin(MaxQueryOps) \/ JsonGetStatsWithin(MaxQueryOps)

SpecQuery == InitQuery /\ [][NextQuery]_vars

-----------------------------------------------------------------------------
(* The development mode: every method of JsonTurnoRepository, and the file *)
(* edited from outside between two calls.                                  *)

MaxJsonOps == 2

JsonInputs ==
  { MkTurnoInsert(D1, Manana, T0700, T1500, FALSE, <<>>, NoKey),
    MkTurnoInsert(D2, NoKey, NoKey, NoKey, TRUE, <<>>, NoKey) }

InitJson ==
  /\ store = {}
  /\ now = 0
  /\ last = [op |-> "none"]
  /\ json \in {JsonStart(file) : file \in JsonFiles}
  /\ calls = <<>>

JsonCreate ==
  /\ now < MaxJsonOps
  /\ \E data \in JsonInputs :
     \E r \in {jsonCreate(json, data, now + 1)} : JsonDone("jsonCreate", data, r)

JsonUpdate ==
  /\ now < MaxJsonOps
  /\ \E data \in {[notas |-> <<"x">>]} :
     \E r \in {jsonUpdate(json, D1, data, now + 1)} :
       JsonDone("jsonUpdate", data, r)

JsonDelete ==
  /\ now < MaxJsonOps
  /\ \E id \in {D1} :
     \E r \in {jsonDelete(json, id, id)} : JsonDone("jsonDelete", id, r)

JsonUpsert ==
  /\ now < MaxJsonOps
  /\ \E data \in JsonInputs :
     \E r \in {jsonUpsert(json, data, now + 1)} : JsonDone("jsonUpsert", data, r)

JsonBulkUpsert ==
  /\ now < MaxJsonOps
  /\ \E turnosData \in {<<>>} \cup {<<data>> : data \in JsonInputs} :
     \E r \in {jsonBulkUpsert(json, turnosData, now + 1)} :
       JsonDone("jsonBulkUpsert", turnosData, r)

JsonDeleteOlderThan ==
  /\ now < MaxJsonOps
  /\ \E date \in {D3} :
     \E r \in {jsonDeleteOlderThan(json, date)} :
       JsonDone("jsonDeleteOlderThan", date, r)

JsonFindByFecha ==
  /\ now < MaxJsonOps
  /\ \E fecha \in {D1, D2}, personaId \in {UNDEFINED, P1} :
     \E r \in {jsonFindByFecha(json, fecha, personaId, now + 1)} :
       JsonDone("jsonFindByFecha", [fecha |-> fecha, personaId |-> personaId], r)

\* the file written from outside the process: its modification time moves
\* on, and it may no longer be there or no longer parse
EditFile ==
  /\ now < MaxJsonOps
  /\ \E file \in JsonFiles, readable \in BOOLEAN :
       /\ json' = [json EXCEPT !.file = file, !.readable = readable,
                                !.mtime = now + 1]
       /\ now' = now + 1
       /\ last' = [op |-> "editFile", before |-> json, prev |-> last.op]
       /\ UNCHANGED <<store, calls>>

NextJson ==
  \/ JsonCreate \/ JsonUpdate \/ JsonDelete \/ JsonUpsert \/ JsonBulkUpsert
  \/ JsonDeleteOlderThan \/ JsonFindByFecha \/ EditFile
  \/ JsonFindByDateRangeWithin(MaxJsonOps) \/ JsonGetStatsWithin(MaxJsonOps)

SpecJson == InitJson /\ [][NextJson]_vars

-----------------------------------------------------------------------------
(* The normalizations called on one value: normalizeDateInput of           *)
(* utils/date.ts and the transforms of fecha, startshift / endshift and    *)
(* vacaciones of excelRowSchema.                                           *)

\* day, month and year as written, joined by one separator, and strings
\* of other forms
DateInputs ==
  { d \o <<sep>> \o m \o <<sep>> \o y :
      d \in {<<"1">>, <<"1", "5">>, <<"3", "1">>, <<"3", "2">>, <<"0", "1">>},
      m \in {<<"1">>, <<"2">>, <<"1", "2">>, <<"1", "3">>, <<"0", "1">>},
      y \in {<<"2", "0", "2", "5">>, <<"2", "0", "2", "4">>,
             <<"0", "0", "5", "0">>, <<"9", "9", "9", "9">>},
      sep \in {"/", "-"} }
  \cup
  { D1, <<"2", "0", "2", "4", "-", "0", "2", "-", "2", "9">>,
    <<"2", "0", "2", "5", "/", "0", "1", "/", "0", "1">>,
    <<"2", "0", "2", "5", "-", "1", "-", "1">>,
    <<"1", "/", "1", "/", "2", "5">>,
    <<"1", "5", "/", "1", "-", "2", "0", "2", "5">>,
    <<" ", "1", "5", "/", "1", "/", "2", "0", "2", "5", " ">>,
    <<"x">>, <<>> }

\* a clock time as written: the hour, the minute part and the suffix
TimeInputs ==
  [ h : {<<"0">>, <<"7">>, <<"0", "7">>, <<"1", "2">>, <<"1", "3">>,
         <<"2", "3">>, <<"2", "4">>, <<"2", "5">>},
    mm : {<<>>, <<":", "0", "0">>, <<":", "3", "0">>, <<":", "5", "9">>,
          <<":", "6", "0">>, <<"3", "0">>},
    sfx : {<<>>, <<" ", "a", "m">>, <<" ", "p", "m">>, <<"P", "M">>,
           <<"a", "m">>} ]

\* strings that are no clock time
TimeOthers == { <<>>, <<" ">>, <<"x">>, <<"7", ":", "3">>, <<":", "3", "0">>,
                <<"7", " ", "3", "0">> }

\* the strings of a vacaciones cell, each with its lower-cased and trimmed
\* form written out
VacationStrings ==
  { <<<<"s", "í">>, <<"s", "í">>>>, <<<<"s", "i">>, <<"s", "i">>>>,
    <<<<"t", "r", "u", "e">>, <<"t", "r", "u", "e">>>>,
    <<<<"1">>, <<"1">>>>,
    <<<<"S", "í">>, <<"s", "í">>>>, <<<<"S", "Í">>, <<"s", "í">>>>,
    <<<<" ", "S", "I", " ">>, <<"s", "i">>>>,
    <<<<"T", "R", "U", "E">>, <<"t", "r", "u", "e">>>>,
    <<<<" ", "1">>, <<"1">>>>,
    <<<<"n", "o">>, <<"n", "o">>>>, <<<<"f", "a", "l", "s", "e">>, <<"f", "a", "l", "s", "e">>>>,
    <<<<"0">>, <<"0">>>>, <<<<"y", "e", "s">>, <<"y", "e", "s">>>>,
    <<<<"s", " ", "i">>, <<"s", " ", "i">>>>,
    <<<<"1", "1">>, <<"1", "1">>>>,
    <<<<>>, <<>>>>, <<<<" ">>, <<>>>> }

VacationNumbers == {-1, 0, 1, 2}

NormalizeDateInput ==
  /\ last.op = "none"
  /\ \E input \in DateInputs :
     \E r \in {normalizeDateInput(input)} :
       last' = [op |-> "normalizeDateInput", input |-> input, ok |-> r.ok,
                value |-> IF r.ok THEN r.value ELSE <<>>]
  /\ UNCHANGED <<store, now, json, calls>>

ExcelFecha ==
  /\ last.op = "none"
  /\ \E input \in DateInputs :
     \E r \in {excelFecha(Str(input))} :
       last' = [op |-> "excelFecha", input |-> input,
                ok |-> r.status = "ok",
                value |-> IF r.status = "ok" THEN r.value ELSE <<>>]
  /\ UNCHANGED <<store, now, json, calls>>

ExcelTime ==
  /\ last.op = "none"
  /\ \/ \E input \in TimeInputs :
        \E r \in {excelTime(Str(input.h \o input.mm \o input.sfx))} :
          last' = [op |-> "excelTime", written |-> {input},
                   input |-> input.h \o input.mm \o input.sfx,
                   status |-> r.status,
                   value |-> IF r.status = "ok" THEN r.value ELSE <<>>]
     \/ \E input \in TimeOthers :
        \E r \in {excelTime(Str(input))} :
          last' = [op |-> "excelTime", written |-> {}, input |-> input,
                   status |-> r.status,
                   value |-> IF r.status = "ok" THEN r.value ELSE <<>>]
  /\ UNCHANGED <<store, now, json, calls>>

ExcelVacaciones ==
  /\ last.op = "none"
  /\ \E cell \in {Bool(b) : b \in BOOLEAN} \cup {Num(n) : n \in VacationNumbers}
                  \cup {Str(x[1]) : x \in VacationStrings} \cup {Empty} :
     \E r \in {excelVacaciones(cell)} :
       last' = [op |-> "excelVacaciones", cell |-> cell, status |-> r.status,
                value |-> IF r.status = "ok" THEN r.value ELSE FALSE]
  /\ UNCHANGED <<store, now, json, calls>>

NextNormalize ==
  NormalizeDateInput \/ ExcelFecha \/ ExcelTime \/ ExcelVacaciones

SpecNormalize == Init /\ [][NextNormalize]_vars

-----------------------------------------------------------------------------
(* POST /turnos/excel with a file, as the first request: names with and    *)
(* without the extension, sizes around the ceilings, MAX_UPLOAD_MB unset,  *)
(* empty or 1, and sheets of rows in strict and in relaxed notation.       *)

UploadNames ==
  { <<"a", ".", "x", "l", "s", "x">>, <<"A", ".", "X", "L", "S", "X">>,
    <<"a", ".", "x", "l", "s">>, <<"x", "l", "s", "x">> }

UploadSizes == {0, 1, 1024 * 1024, 5 * 1024 * 1024, 5 * 1024 * 1024 + 1}

UploadCeilings == {UNDEFINED, <<>>, <<"1">>}

\* the rows of the sheets and of the imports, a row whose date is day-first
\* with hyphens and whose times are written with am and pm, and a row
\* whose cells carry spaces around their text
UploadRows ==
  SheetRows \cup ExcelRows \cup
  { MkRow(Str(<<"3", "1", "-", "1", "-", "2", "0", "2", "5">>), Str(Manana),
          Str(<<"1", "2", " ", "a", "m">>), Str(<<"1", "2", "3", "0", "p", "m">>),
          Num(0), Str(<<" ", "x", " ">>)),
    MkRow(Str(<<" ", "2", "0", "2", "5", "-", "0", "1", "-", "0", "3", " ">>),
          Str(<<"T", "A", "R", "D", "E", " ">>), Str(<<" ", "7", ":", "3", "0">>),
          Str(<<"1", "5", ":">>), Str(<<" ", "T", "R", "U", "E">>), Str(<<" ">>)) }

MaxUploadRows == 1

UploadFiles ==
  { [originalname |-> name, size |-> size, rows |-> rows] :
      name \in UploadNames, size \in UploadSizes,
      rows \in UNION {[1..n -> UploadRows] : n \in 0..MaxUploadRows} }

ProcessExcelUpload ==
  /\ last.op = "none"
  /\ \E files \in {{}} \cup {{f} : f \in UploadFiles},
        maxUploadMb \in UploadCeilings, fails \in ExcelFailMaps :
     \E r \in {processExcelUpload(store, files, maxUploadMb, now + 1, fails)} :
       /\ store' = r.store
       /\ now' = now + 1
       /\ UNCHANGED <<json, calls>>
       /\ last' = [op |-> "processExcelUpload", files |-> files,
                   maxUploadMb |-> maxUploadMb, fails |-> fails,
                   status |-> r.status, details |-> r.details,
                   read |-> r.read, result |-> r.result, before |-> store]

SpecUpload == Init /\ [][ProcessExcelUpload]_vars

-----------------------------------------------------------------------------
(* The two single-record routes through their handlers: bodies that pass  *)
(* and that fail the schema and the business rules, and reads of stored    *)
(* and of missing dates.                                                   *)

\* bodies the schema rejects: a date out of form, a shift type outside the
\* enumeration, a time out of range
BadBodies ==
  { MkTurnoInsert(<<"1", "/", "1", "/", "2", "0", "2", "5">>, Manana, NoKey,
                  NoKey, FALSE, <<>>, NoKey),
    MkTurnoInsert(D1, <<"t", "a", "r", "d", "e", "s">>, NoKey, NoKey, FALSE,
                  <<>>, NoKey),
    MkTurnoInsert(D2, NoKey, <<"2", "4", ":", "0", "0">>, T0600, FALSE, <<>>,
                  NoKey) }

MaxHttpOps == 1

PostTurno ==
  /\ now < MaxHttpOps
  /\ \E body \in TurnoInputs \cup BadBodies, fail \in FailPoints :
     \E r \in {postUpsertTurno(store, body, now + 1, fail)} :
       /\ store' = r.store
       /\ now' = now + 1
       /\ UNCHANGED <<json, calls>>
       /\ last' = [op |-> "POST /turnos", input |-> body, fail |-> fail,
                   status |-> r.status, error |-> r.error,
                   result |-> r.result, before |-> store]

GetTurnoByFecha ==
  /\ now < MaxHttpOps
  /\ \E fecha \in {D1, D2, <<"1", "/", "1", "/", "2", "0", "2", "5">>},
        personaId \in {UNDEFINED, P1}, fail \in {"none", "find"} :
     \E r \in {getTurnoByFecha(store, fecha, personaId, fail)} :
       /\ now' = now + 1
       /\ UNCHANGED <<store, json, calls>>
       /\ last' = [op |-> "GET /turnos/:fecha", fecha |-> fecha,
                   personaId |-> personaId, fail |-> fail,
                   status |-> r.status, result |-> r.result, before |-> store]

NextHttp == PostTurno \/ GetTurnoByFecha

SpecHttp == Init /\ [][NextHttp]_vars

-----------------------------------------------------------------------------
(* Calls of TurnoRepository.upsert that overlap.  A call is suspended at   *)
(* each await: the lookup of findByFecha, then the create, or the read and *)
(* the replace of update.  A step is the container serving one of these    *)
(* requests and the call running on to its next await.                     *)

\* three candidates for one date that differ in their keys, and one for
\* another date
RaceInputs ==
  { MkTurnoInsert(D2, Manana, T0700, T1500, FALSE, <<"x">>, NoKey),
    MkTurnoInsert(D2, NoKey, NoKey, NoKey, TRUE, <<>>, NoKey),
    MkTurnoInsert(D1, Tarde, NoKey, NoKey, FALSE, <<>>, NoKey),
    MkTurnoInsert(D1, NoKey, NoKey, NoKey, TRUE, <<"y">>, NoKey) }

MaxCalls == 2

At(c, pc) == c \in DOMAIN calls /\ calls[c].pc = pc

\* upsert is called: findByFecha sends its read
CallUpsert ==
  /\ Len(calls) < MaxCalls
  /\ \E data \in RaceInputs :
       calls' = Append(calls, [data |-> data, pc |-> "find", id |-> <<>>,
                               document |-> {}, status |-> "pending",
                               result |-> {}])
  /\ last' = IF last.op = "none" THEN [op |-> "calls", before |-> store]
             ELSE last
  /\ UNCHANGED <<store, now, json>>

\* the lookup is served: the call goes on to update or to create
FindExisting ==
  \E c \in DOMAIN calls :
    /\ At(c, "find")
    /\ \E existing \in {findByFecha(store, calls[c].data.fecha,
                                    Get(calls[c].data, "personaId"))} :
         calls' =
           [calls EXCEPT ![c] =
              IF existing # {}
              THEN [@ EXCEPT !.pc = "read",
                             !.id = (CHOOSE d \in existing : TRUE).id]
              ELSE [@ EXCEPT !.pc = "create"]]
    /\ now' = now + 1
    /\ UNCHANGED <<store, last, json>>

\* container.items.create is served: 409 when the id is taken
CreateItem ==
  \E c \in DOMAIN calls :
    /\ At(c, "create")
    /\ \E r \in {create(store, calls[c].data, now + 1, "none")} :
         /\ store' = r.store
         /\ calls' = [calls EXCEPT ![c] =
                        [@ EXCEPT !.pc = "done", !.status = r.status,
                                  !.result = r.resource]]
    /\ now' = now + 1
    /\ UNCHANGED <<last, json>>

\* the read of update is served: null when the item is gone, else the
\* updated document is built and the replace is sent
ReadExisting ==
  \E c \in DOMAIN calls :
    /\ At(c, "read")
    /\ \E found \in {ReadItem(store, calls[c].id, calls[c].data.fecha)} :
         calls' =
           [calls EXCEPT ![c] =
              IF found = {}
              THEN [@ EXCEPT !.pc = "done", !.status = "ok"]
              ELSE [@ EXCEPT !.pc = "replace",
                             !.document =
                               {updatedDocumentOf(CHOOSE d \in found : TRUE,
                                                  calls[c].data, now + 1)}]]
    /\ now' = now + 1
    /\ UNCHANGED <<store, last, json>>

\* the replace is served
ReplaceItem ==
  \E c \in DOMAIN calls :
    /\ At(c, "replace")
    /\ \E document \in calls[c].document :
       \E r \in {replaceItem(store, calls[c].id, document.fecha, document)} :
         /\ store' = r.store
         /\ calls' = [calls EXCEPT ![c] =
                        [@ EXCEPT !.pc = "done", !.status = "ok",
                                  !.result = IF r.status = "ok"
                                             THEN {document} ELSE {}]]
    /\ now' = now + 1
    /\ UNCHANGED <<last, json>>

NextCalls ==
  CallUpsert \/ FindExisting \/ CreateItem \/ ReadExisting \/ ReplaceItem

SpecCalls == Init /\ [][NextCalls]_vars

-----------------------------------------------------------------------------
(* loadData of the development repository while the file is edited.  A     *)
(* load is suspended at its two awaits: fs.stat and fs.readFile; an edit   *)
(* of the file advances its modification time.  last keeps the versions    *)
(* of the file by modification time.                                       *)

MaxLoads == 2

MaxEdits == 2

\* the file as it was at modification time m
VersionAt(m) == IF last.op = "none" THEN json.file ELSE last.versions[m + 1]

\* data/turno.json is written
EditSnapshot ==
  /\ json.mtime < MaxEdits
  /\ \E file \in JsonFiles \ {json.file} :
       /\ json' = [json EXCEPT !.file = file, !.mtime = @ + 1]
       /\ last' = [op |-> "edit",
                   versions |-> [m \in 1..(json.mtime + 2) |->
                                   IF m = json.mtime + 2 THEN file
                                   ELSE VersionAt(m - 1)]]
  /\ UNCHANGED <<store, now, calls>>

\* a read method calls loadData: fs.stat is sent
CallLoadData ==
  /\ Len(calls) < MaxLoads
  /\ calls' = Append(calls, [pc |-> "stat", stats |-> 0, cached |-> FALSE,
                             before |-> json, readAt |-> 0, data |-> <<>>])
  /\ UNCHANGED <<store, now, last, json>>

\* fs.stat is served: the cache is returned if it is valid, else
\* fs.readFile is sent
StatFile ==
  \E c \in DOMAIN calls :
    /\ At(c, "stat")
    /\ calls' =
         [calls EXCEPT ![c] =
            IF cacheValid(json, json.mtime)
            THEN [@ EXCEPT !.pc = "done", !.stats = json.mtime,
                           !.cached = TRUE, !.before = json,
                           !.data = CHOOSE docs \in json.cache : TRUE]
            ELSE [@ EXCEPT !.pc = "readFile", !.stats = json.mtime,
                           !.before = json]]
    /\ UNCHANGED <<store, now, last, json>>

\* fs.readFile is served: the file as it is now is parsed, transformed and
\* cached under the modification time that fs.stat gave
ReadFile ==
  \E c \in DOMAIN calls :
    /\ At(c, "readFile")
    /\ \E docs \in {[i \in 1..Len(json.file) |->
                       transformJsonToDocument(json.file[i], now + 1)]} :
         /\ json' = [json EXCEPT !.cache = {docs},
                                 !.lastModified = calls[c].stats]
         /\ calls' = [calls EXCEPT ![c] =
                        [@ EXCEPT !.pc = "done", !.readAt = json.mtime,
                                  !.data = docs]]
    /\ now' = now + 1
    /\ UNCHANGED <<store, last>>

NextCache == EditSnapshot \/ CallLoadData \/ StatFile \/ ReadFile

SpecCache == InitJson /\ [][NextCache]_vars

-----------------------------------------------------------------------------
(* Sequences of POST /turnos on a container that starts empty: for one     *)
(* date a working day with both times, a body with the required keys and   *)
(* a note, a shift type alone, two times alone, an overnight shift, a      *)
(* vacation day with and without a shift, one time alone, an end before    *)
(* the start; for another date a working day.                              *)

SequenceInputs ==
  { MkTurnoInsert(D1, Manana, T0700, T1500, FALSE, <<"x">>, NoKey),
    MkTurnoInsert(D1, NoKey, NoKey, NoKey, FALSE, <<"y">>, NoKey),
    MkTurnoInsert(D1, Noche, NoKey, NoKey, FALSE, <<>>, NoKey),
    MkTurnoInsert(D1, NoKey, T0600, T1500, FALSE, <<>>, NoKey),
    MkTurnoInsert(D1, Noche, T2200, T0000, FALSE, <<>>, NoKey),
    MkTurnoInsert(D1, Tarde, T1500, NoKey, TRUE, <<>>, NoKey),
    MkTurnoInsert(D1, NoKey, NoKey, NoKey, TRUE, <<>>, NoKey),
    MkTurnoInsert(D1, NoKey, T1500, NoKey, FALSE, <<>>, NoKey),
    MkTurnoInsert(D1, Manana, T2200, T0600, FALSE, <<>>, NoKey),
    MkTurnoInsert(D2, Tarde, T1500, T2200, FALSE, <<>>, NoKey) }

MaxSequence == 2

InitEmpty == Init /\ store = {}

UpsertTurnoInSequence ==
  /\ now < MaxSequence
  /\ \E data \in SequenceInputs, fail \in FailPoints :
       UpsertTurnoWith(data, fail)

SpecSequence == InitEmpty /\ [][UpsertTurnoInSequence]_vars

-----------------------------------------------------------------------------
(* The import of a sheet followed by the import of the same sheet *)

ImportAgain ==
  /\ last.op = "processExcelData"
  /\ \E fails \in ExcelFailMaps :
     \E r \in {processExcelData(store, last.input, now + 1, fails)} :
       /\ store' = r.store
       /\ now' = now + 1
       /\ UNCHANGED <<json, calls>>
       /\ last' = [op |-> "processExcelData again", input |-> last.input,
                   fails |-> fails, first |-> last, bulk |-> r.bulk,
                   result |-> r.result, before |-> store]

SpecReimport == Init /\ [][ImportSheet \/ ImportAgain]_vars

-----------------------------------------------------------------------------
(* The two repositories of RepositoryFactory over the same records: the    *)
(* container holds what the requests of one list stored, data/turno.json   *)
(* holds the same documents in the order of the list, and one read is      *)
(* answered by both.                                                       *)

\* no record; three days in date order; two days out of date order; a day
\* and a day of a person
BackendRecords ==
  { << >>,
    << MkTurnoInsert(D1, Manana, T0700, T1500, FALSE, <<"x">>, NoKey),
       MkTurnoInsert(D2, NoKey, NoKey, NoKey, TRUE, <<>>, NoKey),
       MkTurnoInsert(D3, Tarde, NoKey, NoKey, FALSE, <<>>, NoKey) >>,
    << MkTurnoInsert(D3, Noche, T2200, T0000, FALSE, <<>>, NoKey),
       MkTurnoInsert(D1, Manana, NoKey, NoKey, FALSE, <<>>, NoKey) >>,
    << MkTurnoInsert(D1, Manana, T0700, T1500, FALSE, <<>>, NoKey),
       MkTurnoInsert(D2, Tarde, NoKey, NoKey, FALSE, <<>>, P1) >> }

\* the documents that the requests of reqs stored, as the items of a file
FileOf(reqs) ==
  [i \in DOMAIN reqs |->
     CHOOSE d \in StoredBy({}, reqs) :
       d.id = generateTurnoId(reqs[i].fecha, Get(reqs[i], "personaId"))]

InitBackends ==
  /\ \E reqs \in BackendRecords :
       /\ store = StoredBy({}, reqs)
       /\ json = JsonStart(FileOf(reqs))
  /\ now = 0
  /\ last = [op |-> "none"]
  /\ calls = <<>>

\* what a read of both repositories leaves behind
BothRead(op, input, cosmos, r) ==
  /\ json' = r.json
  /\ now' = now + 1
  /\ last' = [op |-> op, input |-> input, cosmos |-> cosmos,
              status |-> r.status, file |-> r.resource]
  /\ UNCHANGED <<store, calls>>

BothFindByFecha ==
  /\ last.op = "none"
  /\ \E fecha \in {D1, D2}, personaId \in {UNDEFINED, P1} :
     \E cosmos \in {findByFecha(store, fecha, personaId)},
        r \in {jsonFindByFecha(json, fecha, personaId, now + 1)} :
       BothRead("findByFecha", [fecha |-> fecha, personaId |-> personaId],
                cosmos, r)

BothFindByDateRange ==
  /\ last.op = "none"
  /\ \E range \in RangeInputs, personaId \in {UNDEFINED, P1},
        idAsc \in BOOLEAN :
     \E cosmos \in {findByDateRange(store, range[1], range[2], personaId,
                                    idAsc)},
        r \in {jsonFindByDateRange(json, range[1], range[2], personaId,
                                   now + 1)} :
       BothRead("findByDateRange",
                [from |-> range[1], to |-> range[2], personaId |-> personaId],
                cosmos, r)

\* no filter, each filter alone, both bounds, a bound with a shift type
SearchFilters ==
  { << >>, [fecha |-> D1], [turno |-> Manana], [esVacaciones |-> TRUE],
    [esVacaciones |-> FALSE], [personaId |-> P1], [from |-> D2],
    [to |-> D2], [from |-> D1, to |-> D2], [from |-> D3, to |-> D1],
    [from |-> D2, turno |-> Tarde], [personaId |-> <<>>, fecha |-> <<>>] }

BothSearch ==
  /\ last.op = "none"
  /\ \E filters \in SearchFilters, idAsc \in BOOLEAN :
     \E cosmos \in {search(store, filters, idAsc)},
        r \in {jsonSearch(json, filters, now + 1)} :
       BothRead("search", filters, cosmos, r)

BothGetStats ==
  /\ last.op = "none"
  /\ \E from \in {UNDEFINED, D2}, to \in {UNDEFINED, D2} :
     \E cosmos \in {getStats(store, from, to)},
        r \in {jsonGetStats(json, from, to, now + 1)} :
       BothRead("getStats", [from |-> from, to |-> to], cosmos, r)

NextBackends ==
  BothFindByFecha \/ BothFindByDateRange \/ BothSearch \/ BothGetStats

SpecBackends == InitBackends /\ [][NextBackends]_vars

-----------------------------------------------------------------------------
(* Properties of the validation of one candidate *)

ShiftFields == {"turno", "startShift", "endShift"}

NoShiftFields(o) == \A k \in ShiftFields : Get(o, k) = UNDEFINED

HasKey(o, k) == k \in DOMAIN o /\ o[k] # UNDEFINED

ExactlyOneTime(data) == HasKey(data, "startShift") # HasKey(data, "endShift")

BothTimes(data) == HasKey(data, "startShift") /\ HasKey(data, "endShift")

\* YYYY-MM-DD
CanonicalDate(s) ==
  /\ Len(s) = 10
  /\ \A i \in 1..10 : IF i \in {5, 8} THEN s[i] = "-" ELSE IsDigit(s[i])

\* HH:MM with the hour in 00..23 and the minute in 00..59
ClockTime(s) ==
  /\ Len(s) = 5
  /\ \A i \in 1..5 : IF i = 3 THEN s[i] = ":" ELSE IsDigit(s[i])
  /\ DigitVal(s[1]) * 10 + DigitVal(s[2]) \in 0..23
  /\ DigitVal(s[4]) * 10 + DigitVal(s[5]) \in 0..59

MinutesOfDay(s) ==
  (DigitVal(s[1]) * 10 + DigitVal(s[2])) * 60
    + DigitVal(s[4]) * 10 + DigitVal(s[5])

WellFormed(data) ==
  /\ CanonicalDate(data.fecha)
  /\ HasKey(data, "turno") => data.turno \in {Manana, Tarde, Noche}
  /\ \A k \in {"startShift", "endShift"} : HasKey(data, k) => ClockTime(data[k])

NothingStored ==
  last.handed = {} /\ last.result = {} /\ store = last.before

\* C1: a candidate of upsertTurno with esVacaciones true is accepted whatever
\* turno, startShift and endShift it carries, and the record handed to the
\* repository, like every vacation record built from an Excel row and every
\* vacation record in the container, has none of the three
C1_VacationCleared ==
  /\ last.op = "upsertTurno" /\ last.input.esVacaciones /\ WellFormed(last.input)
       => /\ last.handed # {}
          /\ \A h \in last.handed : h.esVacaciones /\ NoShiftFields(h)
          /\ \A d \in last.result : d.esVacaciones /\ NoShiftFields(d)
  /\ last.op = "processExcelData"
       => /\ \A i \in DOMAIN last.validRows :
               last.validRows[i].esVacaciones => NoShiftFields(last.validRows[i])
          /\ \A i \in DOMAIN last.bulk.items : \A d \in last.bulk.items[i] :
               d.esVacaciones => NoShiftFields(d)
  /\ \A d \in store : d.esVacaciones => NoShiftFields(d)

\* a vacation candidate that carries a shift type and both times replaces a
\* working day of the same date
C1_Witness ==
  /\ last.op = "upsertTurno" /\ last.error = "none"
  /\ last.input.esVacaciones
  /\ HasKey(last.input, "turno") /\ BothTimes(last.input)
  /\ \E old \in last.before : old.fecha = last.input.fecha /\ HasKey(old, "turno")
  /\ \E d \in store : d.fecha = last.input.fecha /\ d.esVacaciones

\* C2 as stated: upsertTurno fails whenever exactly one of startShift and
\* endShift is present, and nothing is stored
C2_OneTimeFails ==
  last.op = "upsertTurno" /\ ExactlyOneTime(last.input)
    => last.error # "none" /\ NothingStored

\* C2: for a candidate that is not a vacation, upsertTurno fails when exactly
\* one of startShift and endShift is present, and nothing is stored; a
\* well-formed vacation candidate with exactly one time is accepted and
\* stored without times
C2_OneTimeFailsUnlessVacation ==
  /\ last.op = "upsertTurno" /\ ExactlyOneTime(last.input)
       /\ ~last.input.esVacaciones
       => last.error # "none" /\ NothingStored
  /\ last.op = "upsertTurno" /\ ExactlyOneTime(last.input)
       /\ ~last.input.esVacaciones /\ WellFormed(last.input)
       => last.error = "incomplete"
  /\ last.op = "upsertTurno" /\ ExactlyOneTime(last.input)
       /\ last.input.esVacaciones /\ WellFormed(last.input)
       => /\ last.error = "none"
          /\ \A d \in last.result : d \in store /\ NoShiftFields(d)

\* a working day with a start and no end is turned down
C2_Witness ==
  /\ last.op = "upsertTurno" /\ ~last.input.esVacaciones
  /\ WellFormed(last.input)
  /\ HasKey(last.input, "startShift") /\ ~HasKey(last.input, "endShift")
  /\ last.error = "incomplete" /\ NothingStored

\* C3: for a well-formed candidate that is not a vacation and has both times,
\* upsertTurno fails with the order error exactly when the start is not
\* before the end in minutes of the day and the end is not 00:00, and is
\* accepted otherwise: 07:00-15:00 and 22:00-00:00 pass, 22:00-06:00 does not
C3_TimeOrder ==
  last.op = "upsertTurno" /\ ~last.input.esVacaciones
    /\ WellFormed(last.input) /\ BothTimes(last.input)
    => LET start == last.input.startShift
           end == last.input.endShift
       IN  /\ last.error =
                IF MinutesOfDay(start) >= MinutesOfDay(end) /\ end # T0000
                THEN "order" ELSE "none"
           /\ last.error = "order" => NothingStored
           /\ last.error = "none" => last.result # {} /\ last.result \subseteq store
           /\ <<start, end>> = <<T0700, T1500>> => last.error = "none"
           /\ <<start, end>> = <<T2200, T0000>> => last.error = "none"
           /\ <<start, end>> = <<T2200, T0600>> => last.error = "order"

\* a shift from 22:00 to 00:00 is stored
C3_Witness ==
  /\ last.op = "upsertTurno" /\ ~last.input.esVacaciones
  /\ BothTimes(last.input)
  /\ last.input.startShift = T2200 /\ last.input.endShift = T0000
  /\ last.error = "none"
  /\ \E d \in store : d.startShift = T2200 /\ d.endShift = T0000

\* C4: upsertTurno rejects a candidate whose fecha is not YYYY-MM-DD (a
\* D/M/YYYY date among them), whose turno is present and outside the
\* enumeration, or one of whose times is present and not HH:MM in
\* 00:00..23:59, and it does so before anything reaches the repository
C4_RejectedBeforeStorage ==
  last.op = "upsertTurno" /\ ~WellFormed(last.input)
    => last.error = "zod" /\ NothingStored

\* a candidate that is well-formed but for its D/M/YYYY date is rejected
C4_Witness ==
  /\ last.op = "upsertTurno"
  /\ last.input.fecha = <<"1", "/", "1", "/", "2", "0", "2", "5">>
  /\ WellFormed(Put(last.input, "fecha", D1))
  /\ last.error = "zod" /\ NothingStored

-----------------------------------------------------------------------------
(* Properties of the stored records *)

\* C5: an upsertTurno on a date that holds a record replaces every data
\* field: turno, startShift, endShift, esVacaciones and notas of the stored
\* record are those of the validated candidate, a field the candidate lacks
\* is gone, createdAt is kept and updatedAt is the time of the request
C5_FullReplace ==
  last.op = "upsertTurno" /\ last.error = "none"
    => \A h \in last.handed : \A d \in last.result :
         \A old \in {o \in last.before : o.id = d.id} :
           /\ \A k \in ShiftFields \cup {"notas"} : Get(d, k) = Get(h, k)
           /\ d.esVacaciones = h.esVacaciones
           /\ d.createdAt = old.createdAt
           /\ d.updatedAt = now /\ d.updatedAt > old.updatedAt

\* an upsertTurno on a date that holds a record: the stored record takes
\* every field the validated candidate carries, keeps createdAt and
\* refreshes updatedAt
C5_MergeKeepsCreatedAt ==
  last.op = "upsertTurno" /\ last.error = "none"
    => \A h \in last.handed : \A d \in last.result :
         \A old \in {o \in last.before : o.id = d.id} :
           /\ \A k \in (DOMAIN h) \cap (ShiftFields \cup {"notas"}) :
                Get(d, k) = h[k]
           /\ d.createdAt = old.createdAt
           /\ d.updatedAt = now /\ d.updatedAt > old.updatedAt

\* the key of a record: its fecha, with "_" and its personaId when it has one
KeyOf(o) ==
  IF "personaId" \in DOMAIN o /\ o.personaId # UNDEFINED
  THEN o.fecha \o <<"_">> \o o.personaId ELSE o.fecha

\* C6: after any sequence of calls of the repository the container holds at
\* most one record for a fecha and personaId, and the id of each record is
\* its fecha, followed by "_" and its personaId when it has one
C6_OneRecordPerKey ==
  /\ \A d1, d2 \in store : KeyOf(d1) = KeyOf(d2) => d1 = d2
  /\ \A d \in store : d.id = KeyOf(d)

-----------------------------------------------------------------------------
(* Properties of the import of a sheet *)

FirstOfFecha(rows, i) == \A j \in 1..(i - 1) : rows[j].fecha # rows[i].fecha

FirstIndices(rows) == {i \in DOMAIN rows : FirstOfFecha(rows, i)}

WarningsOf(ws, kind) == {k \in DOMAIN ws : ws[k].kind = kind}

\* C7: of the rows that pass the row schema, the ones handed to bulkUpsert
\* are, in file order, the first row of each fecha; each later row of a
\* fecha is dropped and adds one duplicate warning for that fecha, and what
\* is stored for a fecha comes from its first row
C7_FirstRowKept ==
  last.op = "processExcelData"
    => LET rows == last.validRows
           uniq == last.uniqueRows
           firsts == FirstIndices(rows)
           ws == last.result.warnings
       IN  /\ Len(uniq) = Cardinality(firsts)
           /\ \A i \in firsts :
                uniq[Cardinality({j \in firsts : j < i}) + 1] = rows[i]
           /\ \A i \in DOMAIN rows :
                Cardinality({k \in WarningsOf(ws, "duplicate") :
                               ws[k].fecha = rows[i].fecha})
                  = Cardinality({j \in DOMAIN rows :
                                   rows[j].fecha = rows[i].fecha}) - 1
           /\ Cardinality(WarningsOf(ws, "duplicate")) = Len(rows) - Len(uniq)
           /\ \A i \in firsts : last.fails[rows[i].fecha] = "none"
                => \E d \in store :
                     /\ d.fecha = rows[i].fecha
                     /\ d.notas = rows[i].notas
                     /\ d.esVacaciones = rows[i].esVacaciones

\* two different rows of one fecha: the first is stored, the second warned
C7_Witness ==
  /\ last.op = "processExcelData"
  /\ Len(last.validRows) = 2 /\ Len(last.uniqueRows) = 1
  /\ last.validRows[1].fecha = last.validRows[2].fecha
  /\ last.validRows[1] # last.validRows[2]
  /\ last.uniqueRows[1] = last.validRows[1]
  /\ Cardinality(WarningsOf(last.result.warnings, "duplicate")) = 1
  /\ last.result.inserted = 1

\* the rules of upsertTurno on a stored record
SatisfiesRules(d) ==
  /\ HasKey(d, "turno") => d.turno \in {Manana, Tarde, Noche}
  /\ HasKey(d, "turno") => ~d.esVacaciones
  /\ ~ExactlyOneTime(d)
  /\ BothTimes(d) => \/ MinutesOfDay(d.startShift) < MinutesOfDay(d.endShift)
                     \/ d.endShift = T0000

\* C8: every record that processExcelData stores satisfies the rules of
\* upsertTurno: a turno of the enumeration, both times or none, the start
\* before the end unless the end is 00:00
C8_ImportValidated ==
  last.op = "processExcelData" /\ last.before = {}
    => \A i \in DOMAIN last.bulk.items : \A d \in last.bulk.items[i] :
         SatisfiesRules(d)

\* C9: bulkUpsert takes the candidates in input order: one whose storage
\* call fails is skipped with one warning and leaves the container as it
\* was, one whose key holds a record counts as updated, any other as
\* inserted, and the candidates after a failure are still handled; the three
\* counts add up to the number of candidates and items are the records
\* written, in order
C9_BulkCounts ==
  last.op = "bulkUpsert"
    => LET cands == last.input
           b == last.bulk
           Failing == {i \in DOMAIN cands : last.fails[cands[i].fecha] # "none"}
           Done == DOMAIN cands \ Failing
           Held == {i \in Done :
                      \/ \E d \in last.before :
                           d.id = KeyOf(cands[i]) /\ d.fecha = cands[i].fecha
                      \/ \E j \in Done : j < i /\ KeyOf(cands[j]) = KeyOf(cands[i])}
       IN  /\ b.skipped = Cardinality(Failing)
           /\ b.updated = Cardinality(Held)
           /\ b.inserted = Cardinality(Done \ Held)
           /\ b.inserted + b.updated + b.skipped = Len(cands)
           /\ Len(b.items) = b.inserted + b.updated
           /\ Len(b.warnings) = b.skipped
           /\ \A i \in Failing :
                /\ \E k \in DOMAIN b.warnings :
                     b.warnings[k] = [kind |-> "storage", fecha |-> cands[i].fecha]
                /\ {d \in store : d.fecha = cands[i].fecha}
                     = {d \in last.before : d.fecha = cands[i].fecha}
           /\ \A i \in Done :
                /\ \A d \in b.items[Cardinality({j \in Done : j < i}) + 1] :
                     d.id = KeyOf(cands[i])
                /\ \E d \in store : d.id = KeyOf(cands[i])

\* the first candidate fails, the second replaces a record
C9_Witness ==
  /\ last.op = "bulkUpsert" /\ Len(last.input) = 2
  /\ last.fails[last.input[1].fecha] # "none"
  /\ last.bulk.skipped = 1 /\ last.bulk.updated = 1 /\ last.bulk.inserted = 0
  /\ Len(last.bulk.items) = 1

\* C10: the result of processExcelData holds a warning for every failure of
\* a row, so a result with skipped > 0 holds a storage warning
C10_StorageWarned ==
  last.op = "processExcelData" /\ last.result.skipped > 0
    => WarningsOf(last.result.warnings, "storage") # {}


-----------------------------------------------------------------------------
(* Properties of one import *)

Imported == last.op = "processExcelData"

NoStorageFailure == \A f \in DOMAIN last.fails : last.fails[f] = "none"

\* the rows of the sheet that normalize, and the dates they normalize to
OkRows(excelData) ==
  {i \in DOMAIN excelData : excelRowSchema(excelData[i]).status = "ok"}

OkDates(excelData) ==
  {excelRowSchema(excelData[i]).value.fecha : i \in OkRows(excelData)}

\* C11: an import into an empty store with no storage failure stores exactly
\* one record per distinct date among the rows that normalize, and reports
\* that number as inserted with updated = 0 and skipped = 0; the sheet
\* [2025-01-01 morning, 2025-01-01 afternoon, 2025-01-02 vacation] stores
\* the morning and the vacation record, inserted = 2, one duplicate warning
C11_OneRecordPerDate ==
  (Imported /\ last.before = {} /\ NoStorageFailure) =>
    /\ {d.fecha : d \in store} = OkDates(last.input)
    /\ Cardinality(store) = Cardinality(OkDates(last.input))
    /\ last.result.inserted = Cardinality(OkDates(last.input))
    /\ last.result.updated = 0
    /\ last.result.skipped = 0
    /\ last.input = <<SheetMorning, SheetAfternoon, SheetVacation>> =>
         /\ Cardinality(store) = 2
         /\ \E d \in store : d.fecha = D1 /\ Get(d, "turno") = Manana
                               /\ ~d.esVacaciones
         /\ \E d \in store : d.fecha = D2 /\ d.esVacaciones
         /\ last.result.inserted = 2
         /\ Cardinality(WarningsOf(last.result.warnings, "duplicate")) = 1
         /\ Len(last.result.warnings) = 1

C11_Witness ==
  /\ Imported /\ last.before = {} /\ NoStorageFailure
  /\ last.input = <<SheetMorning, SheetAfternoon, SheetVacation>>
  /\ Cardinality(store) = 2
  /\ last.result.inserted = 2
  /\ Cardinality(WarningsOf(last.result.warnings, "duplicate")) = 1

RowNormalizes(row) == excelRowSchema(row).status = "ok"

\* the warnings that name row number n
WarningsOfRow(ws, n) ==
  {k \in DOMAIN ws : ws[k].kind \in {"row", "priority"} /\ ws[k].row = n}

\* C12: a row that fails to normalize (bad date, bad time, wrong cell type)
\* adds exactly one warning, which names row number index + 2 (index counted
\* from 0), and is not handed to the store; the rows that normalize are all
\* processed, in order, and with no storage failure each of their dates is
\* stored
C12_FailedRowWarned ==
  Imported =>
    LET ws == last.result.warnings
        okRows == SelectSeq(last.input, RowNormalizes)
    IN  /\ \A i \in DOMAIN last.input :
             IF RowNormalizes(last.input[i])
             THEN \A k \in WarningsOfRow(ws, (i - 1) + 2) : ws[k].kind # "row"
             ELSE /\ Cardinality(WarningsOfRow(ws, (i - 1) + 2)) = 1
                  /\ \A k \in WarningsOfRow(ws, (i - 1) + 2) : ws[k].kind = "row"
        /\ Cardinality(WarningsOf(ws, "row"))
             = Len(last.input) - Len(okRows)
        /\ last.validRows =
             [k \in 1..Len(okRows) |->
                turnoDataOf(excelRowSchema(okRows[k]).value)]
        /\ \A k \in DOMAIN last.uniqueRows :
             \E j \in DOMAIN last.validRows :
               last.uniqueRows[k] = last.validRows[j]
        /\ \A d \in store \ last.before : d.fecha \in OkDates(last.input)
        /\ NoStorageFailure =>
             \A f \in OkDates(last.input) : \E d \in store : d.fecha = f

\* a sheet whose first row has a time out of range and whose second row is
\* stored
C12_Witness ==
  /\ Imported /\ NoStorageFailure /\ last.before = {}
  /\ last.input = <<SheetBadTime, SheetMorning>>
  /\ last.result.warnings = <<[kind |-> "row", row |-> 2, cause |-> "throw"]>>
  /\ {d.fecha : d \in store} = {D1}
  /\ last.result.inserted = 1

\* row i normalizes to a vacation day that carries a shift type
VacationWithShift(excelData, i) ==
  /\ RowNormalizes(excelData[i])
  /\ excelRowSchema(excelData[i]).value.vacaciones
  /\ Truthy(excelRowSchema(excelData[i]).value.turno)

\* row i is the first row of its date among the rows that normalize
FirstOfDate(excelData, i) ==
  \A j \in 1..(i - 1) :
    RowNormalizes(excelData[j]) =>
      excelRowSchema(excelData[j]).value.fecha
        # excelRowSchema(excelData[i]).value.fecha

\* C13: a row with a shift type and vacation = true adds one 'vacation takes
\* priority' warning for its row number and does not fail; it is handed on
\* as a vacation record without shiftType, startTime and endTime, and when
\* it is the first row of its date and its write does not fail the stored
\* record of that date is a vacation record without the three
C13_VacationPriority ==
  Imported =>
    \A i \in DOMAIN last.input :
      VacationWithShift(last.input, i) =>
        LET ws == last.result.warnings
            fecha == excelRowSchema(last.input[i]).value.fecha
        IN  /\ Cardinality(WarningsOfRow(ws, (i - 1) + 2)) = 1
            /\ \A k \in WarningsOfRow(ws, (i - 1) + 2) : ws[k].kind = "priority"
            /\ \E j \in DOMAIN last.validRows :
                 /\ last.validRows[j].fecha = fecha
                 /\ last.validRows[j].esVacaciones
                 /\ NoShiftFields(last.validRows[j])
            /\ (FirstOfDate(last.input, i) /\ last.fails[fecha] = "none") =>
                 /\ \E d \in store : d.fecha = fecha
                 /\ \A d \in store :
                      d.fecha = fecha => d.esVacaciones /\ NoShiftFields(d)

\* the vacation row with a night shift and both times, imported over the
\* working day the container holds for its date
C13_Witness ==
  /\ Imported /\ NoStorageFailure
  /\ last.input = <<SheetVacationShift>>
  /\ \E d \in last.before : d.fecha = D1 /\ Get(d, "turno") = Manana
  /\ last.result.warnings = <<[kind |-> "priority", row |-> 2]>>
  /\ last.result.updated = 1
  /\ \A d \in store : d.fecha = D1 /\ d.esVacaciones /\ NoShiftFields(d)
  /\ store # {}

-----------------------------------------------------------------------------
(* Properties of the queries *)

RECURSIVE SumOf(_)
SumOf(f) ==
  IF DOMAIN f = {} THEN 0
  ELSE LET x == CHOOSE k \in DOMAIN f : TRUE
       IN  f[x] + SumOf([k \in DOMAIN f \ {x} |-> f[k]])

\* fecha is in the range of from and to, each of them optional
InRange(fecha, from, to) ==
  /\ Truthy(from) => StrLeq(from, fecha)
  /\ Truthy(to) => StrLeq(fecha, to)

\* the documents the statistics of the last request were taken over, as a
\* function from an index set: the container, or the loaded array
StatsRecords ==
  IF last.op = "getStats"
  THEN LET recs == {d \in last.before : InRange(d.fecha, last.from, last.to)}
       IN  [d \in recs |-> d]
  ELSE LET data == CHOOSE c \in json.cache : TRUE
           idx == {i \in DOMAIN data :
                     InRange(data[i].fecha, last.input.from, last.input.to)}
       IN  [i \in idx |-> data[i]]

StatsAnswered ==
  \/ last.op = "getStats"
  \/ last.op = "jsonGetStats" /\ last.status = "ok"

\* C14: getStats returns total = the number of records in the range,
\* vacationCount = the number of them with isVacation = true, and a
\* countByShiftType whose values sum to total - vacationCount, for every
\* set of stored records (records with neither a shift type nor the
\* vacation flag included)
C14_StatsAddUp ==
  StatsAnswered =>
    LET recs == StatsRecords
        vac == {k \in DOMAIN recs : recs[k].esVacaciones}
    IN  /\ last.result.total = Cardinality(DOMAIN recs)
        /\ last.result.vacaciones = Cardinality(vac)
        /\ SumOf(last.result.porTurno)
             = last.result.total - last.result.vacaciones

\* what the code does return: the values of porTurno sum to the number of
\* records that are not a vacation and carry a shift type
C14_StatsCountShifts ==
  StatsAnswered =>
    LET recs == StatsRecords
        vac == {k \in DOMAIN recs : recs[k].esVacaciones}
        shifts == {k \in DOMAIN recs \ vac : Truthy(Get(recs[k], "turno"))}
    IN  /\ last.result.total = Cardinality(DOMAIN recs)
        /\ last.result.vacaciones = Cardinality(vac)
        /\ SumOf(last.result.porTurno) = Cardinality(shifts)

Ascending(result) ==
  \A i, k \in DOMAIN result : i < k => StrLeq(result[i].fecha, result[k].fecha)

\* how many times x is in seq
CountIn(seq, x) == Cardinality({i \in DOMAIN seq : seq[i] = x})

\* record d is asked for by the last range query
Wanted(d, from, to, personaId) ==
  /\ StrLeq(from, d.fecha) /\ StrLeq(d.fecha, to)
  /\ Truthy(personaId) => Get(d, "personaId") = personaId

\* C17: findByDateRange(from, to, personId?) returns exactly the stored
\* records with from <= date <= to, of the given person only when a
\* (non-empty) personId is given, each once, in ascending date order; in
\* both repositories
C17_RangeQuery ==
  /\ last.op = "findByDateRange" =>
       /\ {last.result[i] : i \in DOMAIN last.result}
            = {d \in last.before :
                 Wanted(d, last.from, last.to, last.personaId)}
       /\ \A i \in DOMAIN last.result : CountIn(last.result, last.result[i]) = 1
       /\ Ascending(last.result)
  /\ (last.op = "jsonFindByDateRange" /\ last.status = "ok") =>
       LET data == CHOOSE c \in json.cache : TRUE IN
       /\ \A i \in DOMAIN data :
            CountIn(last.result, data[i])
              = IF Wanted(data[i], last.input.from, last.input.to,
                          last.input.personaId)
                THEN CountIn(data, data[i]) ELSE 0
       /\ \A i \in DOMAIN last.result : CountIn(data, last.result[i]) > 0
       /\ Ascending(last.result)

\* a query for the first two days, with no person, on a container that
\* holds three days and two records of the first: the three records of
\* the range, the second day last
C17_Witness ==
  /\ last.op = "findByDateRange" /\ last.from = D1 /\ last.to = D2
  /\ \E d \in last.before : d.fecha = D3
  /\ \E d \in last.before : d.fecha = D1 /\ Get(d, "personaId") = P1
  /\ last.personaId = UNDEFINED
  /\ Len(last.result) = 3
  /\ last.result[3].fecha = D2

-----------------------------------------------------------------------------
(* Properties of the development mode *)

JsonMutations ==
  {"jsonCreate", "jsonUpdate", "jsonDelete", "jsonUpsert", "jsonBulkUpsert",
   "jsonDeleteOlderThan"}

JsonReads == {"jsonFindByFecha", "jsonFindByDateRange", "jsonGetStats"}

\* the cache holds one document per item of the file, in the order of the
\* file
CacheMirrorsFile ==
  \E data \in json.cache :
    /\ Len(data) = Len(json.file)
    /\ \A i \in DOMAIN data :
         /\ data[i].fecha = json.file[i].fecha
         /\ data[i].esVacaciones = json.file[i].esVacaciones
         /\ Truthy(data[i].turno) => data[i].turno = json.file[i].turno

\* C16: in the read-only JSON repository create, update, delete, upsert,
\* bulkUpsert and deleteOlderThan each fail with the read-only error and
\* leave the file, the cache and lastModified as they were; a read succeeds
\* whenever the file can be loaded, before and after a failed mutation, and
\* answers from the records of the file
C16_ReadOnly ==
  /\ last.op \in JsonMutations =>
       /\ last.status = "throw" /\ last.error = "read-only"
       /\ json = last.before
  /\ last.op \in JsonReads =>
       /\ json.file = last.before.file
       /\ last.status = (IF last.before.readable THEN "ok" ELSE "throw")
       /\ last.before.readable => CacheMirrorsFile

\* a range query that answers with records right after a rejected upsert
C16_Witness ==
  /\ last.op = "jsonFindByDateRange" /\ last.prev = "jsonUpsert"
  /\ last.status = "ok"
  /\ Len(last.result) = 3
  /\ last.before.cache = {}

-----------------------------------------------------------------------------
(* Properties of the normalizations *)

\* the day, month and year of s when s is day, month (one or two digits)
\* and year (four digits) joined by separators of seps, as a set
ShortParts(s, seps) ==
  { <<SubSeq(s, 1, x[1]), SubSeq(s, x[1] + 2, x[1] + 1 + x[2]),
      SubSeq(s, x[1] + x[2] + 3, Len(s))>> :
    x \in {y \in {1, 2} \X {1, 2} :
             /\ Len(s) = y[1] + y[2] + 6
             /\ s[y[1] + 1] \in seps /\ s[y[1] + y[2] + 2] \in seps
             /\ \A i \in (1..Len(s)) \ {y[1] + 1, y[1] + y[2] + 2} :
                  IsDigit(s[i])} }

Pad2(x) == IF Len(x) = 1 THEN <<"0">> \o x ELSE x

\* the canonical form of day p[1], month p[2], year p[3]
DayFirst(p) == p[3] \o <<"-">> \o Pad2(p[2]) \o <<"-">> \o Pad2(p[1])

\* the day and the month are in the calendar
InCalendar(p) ==
  /\ ParseInt(p[2]) \in 1..12
  /\ ParseInt(p[1]) \in 1..DaysInMonth(ParseInt(p[3]), ParseInt(p[2]))

DateNormalized == last.op \in {"normalizeDateInput", "excelFecha"}

\* the string the function looks at, and the separators it takes
DateText == IF last.op = "excelFecha" THEN Trim(last.input) ELSE last.input

DateSeps == IF last.op = "excelFecha" THEN {"/", "-"} ELSE {"/"}

\* C18: date normalization returns a canonical YYYY-MM-DD input unchanged,
\* maps a D/M/YYYY input (day first, a day and a month of the calendar) to
\* the canonical form with zero-padded month and day, fails on a string of
\* neither form, and returns only values in canonical form
C18_DateNormalized ==
  DateNormalized =>
    /\ CanonicalDate(DateText) => last.ok /\ last.value = DateText
    /\ \A p \in ShortParts(DateText, DateSeps) :
         InCalendar(p) => last.ok /\ last.value = DayFirst(p)
    /\ (~CanonicalDate(DateText) /\ ShortParts(DateText, DateSeps) = {})
         => ~last.ok
    /\ last.ok => CanonicalDate(last.value)

\* what the code does: the statement above holds for the transform of the
\* Excel date cell, and for normalizeDateInput when the year is 0100 or
\* later and the day and the month are in the calendar
C18_DateNormalizedModernYears ==
  DateNormalized =>
    /\ CanonicalDate(DateText) => last.ok /\ last.value = DateText
    /\ \A p \in ShortParts(DateText, DateSeps) :
         /\ last.ok
         /\ (InCalendar(p)
               /\ (last.op = "excelFecha" \/ ParseInt(p[3]) >= 100))
             => last.value = DayFirst(p) /\ CanonicalDate(last.value)
         /\ last.op = "excelFecha" => last.value = DayFirst(p)
    /\ (~CanonicalDate(DateText) /\ ShortParts(DateText, DateSeps) = {})
         => ~last.ok

TwoDigits(n) == <<Digits[(n \div 10) + 1], Digits[(n % 10) + 1]>>

\* the hour and the minute that the written time w stands for
WrittenHour(w) ==
  LET h == ParseInt(w.h) IN
  IF w.sfx \in {<<" ", "a", "m">>, <<"a", "m">>} THEN (IF h = 12 THEN 0 ELSE h)
  ELSE IF w.sfx \in {<<" ", "p", "m">>, <<"P", "M">>}
    THEN (IF h = 12 THEN 12 ELSE h + 12)
  ELSE h

WrittenMinute(w) ==
  IF w.mm = <<>> THEN 0
  ELSE DigitVal(w.mm[Len(w.mm) - 1]) * 10 + DigitVal(w.mm[Len(w.mm)])

\* C19: the time normalization of an Excel cell maps H, H:MM and H[:MM]
\* am/pm to HH:MM ("7" to "07:00", "7:30 pm" to "19:30", "12 am" to
\* "00:00") and fails on "25:00"; a time it returns has its hour in 00..23
\* and its minute in 00..59, and an input whose hour or minute comes out
\* of range fails
C19_TimeNormalized ==
  last.op = "excelTime" =>
    /\ last.input = <<"7">> => last.value = <<"0", "7", ":", "0", "0">>
    /\ last.input = <<"7", ":", "3", "0", " ", "p", "m">>
         => last.value = <<"1", "9", ":", "3", "0">>
    /\ last.input = <<"1", "2", " ", "a", "m">>
         => last.value = <<"0", "0", ":", "0", "0">>
    /\ last.input = <<"2", "5", ":", "0", "0">> => last.status = "throw"
    /\ last.status = "ok" =>
         IF Trim(last.input) = <<>> THEN last.value = UNDEFINED
         ELSE ClockTime(last.value)
    /\ \A w \in last.written :
         IF WrittenHour(w) <= 23 /\ WrittenMinute(w) <= 59
         THEN /\ last.status = "ok"
              /\ last.value = TwoDigits(WrittenHour(w)) \o <<":">>
                                \o TwoDigits(WrittenMinute(w))
         ELSE last.status = "throw"

C19_Witness ==
  /\ last.op = "excelTime"
  /\ last.input = <<"1", "2", ":", "3", "0", " ", "a", "m">>
  /\ last.status = "ok"
  /\ last.value = <<"0", "0", ":", "3", "0">>

\* C20: the vacation cell is coerced without failing for a boolean, a number
\* and a string: a boolean is kept, a number is true only when it is 1, a
\* string is true exactly when, lower-cased and trimmed, it is "sí", "si",
\* "true" or "1"; every other number or string gives false
C20_VacationCoerced ==
  (last.op = "excelVacaciones" /\ last.cell.type # "undefined") =>
    /\ last.status = "ok"
    /\ last.cell.type = "boolean" => last.value = last.cell.bool
    /\ last.cell.type = "number" => last.value = (last.cell.num = 1)
    /\ last.cell.type = "string" =>
         \A x \in VacationStrings :
           x[1] = last.cell.str =>
             last.value = (x[2] \in {<<"s", "í">>, <<"s", "i">>,
                                      <<"t", "r", "u", "e">>, <<"1">>})

C20_Witness ==
  /\ last.op = "excelVacaciones"
  /\ last.cell = Str(<<" ", "S", "I", " ">>)
  /\ last.status = "ok" /\ last.value = TRUE

-----------------------------------------------------------------------------
(* Properties of the upload of a file *)

Uploaded == last.op = "processExcelUpload" /\ last.files # {}

UploadedFile == CHOOSE f \in last.files : TRUE

\* the ceiling in bytes: MAX_UPLOAD_MB megabytes, 5 when it is not set
CeilingBytes ==
  IF last.maxUploadMb \in {UNDEFINED, <<>>} THEN 5242880
  ELSE ParseInt(last.maxUploadMb) * 1048576

NamedXlsx ==
  LET name == UploadedFile.originalname IN
  /\ Len(name) >= 5
  /\ name[Len(name) - 4] = "."
  /\ \A k \in 0..3 :
       name[Len(name) - k] \in
         {<<"x", "s", "l", "x">>[k + 1], <<"X", "S", "L", "X">>[k + 1]}

\* the errors the constraints call for
ViolatedConstraints ==
  {e \in {"size", "type", "empty"} :
     CASE e = "size"  -> UploadedFile.size > CeilingBytes
       [] e = "type"  -> ~NamedXlsx
       [] e = "empty" -> UploadedFile.size = 0}

\* C21: a file is valid exactly when its name ends in .xlsx in any case,
\* its size is not zero and its size is at most the ceiling; each violated
\* constraint adds one error of its own; an invalid file is answered 400
\* with the errors, the workbook is not read and the container stays as it
\* was
C21_UploadConstraints ==
  Uploaded =>
    LET check == validateExcelFile(UploadedFile, last.maxUploadMb) IN
    /\ check.valid <=> ViolatedConstraints = {}
    /\ {check.errors[i] : i \in DOMAIN check.errors} = ViolatedConstraints
    /\ Len(check.errors) = Cardinality(ViolatedConstraints)
    /\ ViolatedConstraints # {} =>
         /\ last.status = 400
         /\ last.details = check.errors
         /\ ~last.read
         /\ last.result = {}
         /\ store = last.before
    /\ ViolatedConstraints = {} => last.read

\* an empty file without the extension, with a row that would be stored,
\* is rejected with two errors; MAX_UPLOAD_MB is 1
C21_Witness ==
  /\ Uploaded
  /\ last.maxUploadMb = <<"1">>
  /\ UploadedFile.rows = <<SheetVacation>>
  /\ last.before = {}
  /\ last.details = <<"type", "empty">>
  /\ last.status = 400
  /\ store = {}

-----------------------------------------------------------------------------
(* Properties of the single-record routes *)

\* the body fails the schema or a business rule
ValidationFailed ==
  /\ last.op = "POST /turnos"
  /\ last.error \in {"zod", "date", "conflict", "incomplete", "order"}

\* C22: POST /turnos answers every validation failure with 400 and never
\* with 500, and GET /turnos/:fecha answers 404 exactly when the read
\* succeeds and no record is stored under the key
C22_DistinctOutcomes ==
  /\ ValidationFailed => last.status = 400
  /\ (last.op = "GET /turnos/:fecha" /\ IsISODate(last.fecha)
        /\ last.fail = "none") =>
       (last.status = 404 <=>
          ~\E d \in last.before :
             /\ d.fecha = last.fecha
             /\ d.id = generateTurnoId(last.fecha, last.personaId))

\* the part that holds: a body the schema rejects is answered 400, and the
\* read answers 404 exactly when nothing is stored under the key
C22_SchemaAndNotFound ==
  /\ (last.op = "POST /turnos" /\ last.error = "zod") => last.status = 400
  /\ (last.op = "GET /turnos/:fecha" /\ IsISODate(last.fecha)
        /\ last.fail = "none") =>
       (last.status = 404 <=>
          ~\E d \in last.before :
             /\ d.fecha = last.fecha
             /\ d.id = generateTurnoId(last.fecha, last.personaId))

-----------------------------------------------------------------------------
(* Properties of the order of the rules *)

\* C23: the shift is cleared before the rules are checked, so upsertTurno
\* never fails with the error of a shift type together with vacation, the
\* record handed to the repository never has both, and a well-formed
\* vacation candidate is accepted and stored without its shift whatever
\* shift type and times it carries, one time alone and a start that is not
\* before the end among them
C23_ExclusiveAfterClear ==
  last.op = "upsertTurno" =>
    /\ last.error # "conflict"
    /\ \A h \in last.handed : ~(h.esVacaciones /\ HasKey(h, "turno"))
    /\ (last.input.esVacaciones /\ WellFormed(last.input)) =>
         /\ last.error = "none"
         /\ last.result # {}
         /\ \A d \in last.result :
              d \in store /\ d.esVacaciones /\ NoShiftFields(d)

\* a vacation candidate with a shift type and a shift from 22:00 to 06:00
\* is stored as a vacation day
C23_Witness ==
  /\ last.op = "upsertTurno" /\ last.error = "none"
  /\ last.input.esVacaciones
  /\ HasKey(last.input, "turno")
  /\ Get(last.input, "startShift") = T2200
  /\ Get(last.input, "endShift") = T0600
  /\ \E d \in store :
       d.fecha = last.input.fecha /\ d.esVacaciones /\ NoShiftFields(d)

-----------------------------------------------------------------------------
(* Properties of overlapping calls of upsert *)

\* a document without its two timestamps
Untimed(d) == [k \in DOMAIN d \ {"createdAt", "updatedAt"} |-> d[k]]

\* the container after the calls listed in order ran one after the other
RECURSIVE RunInOrder(_, _)
RunInOrder(s, order) ==
  IF order = <<>> THEN s
  ELSE RunInOrder(upsert(s, calls[Head(order)].data, 0, "none").store,
                  Tail(order))

Orders ==
  {o \in [DOMAIN calls -> DOMAIN calls] :
     \A i, k \in DOMAIN calls : o[i] = o[k] => i = k}

AllDone == Len(calls) >= 2 /\ \A c \in DOMAIN calls : calls[c].pc = "done"

\* C24: when two calls of upsert have run, however their steps interleave,
\* each has returned and none has thrown, and the container is, but for
\* the timestamps, what the calls leave when run in some order one after
\* the other
C24_UpsertsSerialize ==
  AllDone =>
    /\ \A c \in DOMAIN calls : calls[c].status = "ok"
    /\ \E o \in Orders :
         {Untimed(d) : d \in store} =
           {Untimed(d) : d \in RunInOrder(last.before, o)}

\* what holds: calls for different dates leave what they leave in sequence
C24_DisjointKeysSerialize ==
  (AllDone /\ \A c, e \in DOMAIN calls :
                c # e => calls[c].data.fecha # calls[e].data.fecha) =>
    /\ \A c \in DOMAIN calls : calls[c].status = "ok"
    /\ \E o \in Orders :
         {Untimed(d) : d \in store} =
           {Untimed(d) : d \in RunInOrder(last.before, o)}

-----------------------------------------------------------------------------
(* Properties of the cache of the development repository *)

\* the records of a file, without the timestamps of their transformation
RecordsOf(file) ==
  [i \in 1..Len(file) |->
     [k \in {"id", "fecha", "turno", "esVacaciones", "notas"} |->
        transformJsonToDocument(file[i], 0)[k]]]

RecordsIn(docs) ==
  [i \in 1..Len(docs) |->
     [k \in {"id", "fecha", "turno", "esVacaciones", "notas"} |-> docs[i][k]]]

Loaded(c) == c \in DOMAIN calls /\ calls[c].pc = "done"

\* C25 as stated: a load reads the file again exactly when there is no
\* cache or the modification time of the file is greater than the cached
\* one, and each load returns the records of the version of the file whose
\* modification time it observed
C25_ReadReturnsObservedVersion ==
  \A c \in DOMAIN calls : Loaded(c) =>
    /\ ~calls[c].cached <=>
         (calls[c].before.cache = {}
            \/ calls[c].stats > calls[c].before.lastModified)
    /\ RecordsIn(calls[c].data) = RecordsOf(VersionAt(calls[c].stats))

\* C25: a load reads the file again exactly when there is no cache or the
\* modification time of the file is greater than the cached one; a load
\* that does not returns the cached records, which are those of the
\* version it observed; a load that does returns the records of the file
\* as it is when read, which is the version it observed unless the file
\* was written between its stat and its read, and then a later one
C25_CacheFollowsMtime ==
  \A c \in DOMAIN calls : Loaded(c) =>
    /\ ~calls[c].cached <=>
         (calls[c].before.cache = {}
            \/ calls[c].stats > calls[c].before.lastModified)
    /\ calls[c].cached =>
         /\ calls[c].data \in calls[c].before.cache
         /\ RecordsIn(calls[c].data) = RecordsOf(VersionAt(calls[c].stats))
    /\ ~calls[c].cached =>
         /\ calls[c].readAt >= calls[c].stats
         /\ RecordsIn(calls[c].data) = RecordsOf(VersionAt(calls[c].readAt))

\* a first load caches the file, the file is written, and a second load
\* sees the later modification time and returns the new records
C25_Witness ==
  /\ Loaded(1) /\ Loaded(2)
  /\ ~calls[1].cached /\ calls[1].stats = 0 /\ calls[1].readAt = 0
  /\ calls[2].before.cache # {} /\ calls[2].before.lastModified = 0
  /\ ~calls[2].cached /\ calls[2].stats = 1 /\ calls[2].readAt = 1
  /\ RecordsIn(calls[2].data) # RecordsIn(calls[1].data)
  /\ RecordsIn(calls[2].data) = RecordsOf(json.file)

-----------------------------------------------------------------------------
(* Properties of sequences of upsertTurno *)

\* C26: after any sequence of upsertTurno calls on a container that starts
\* empty, no stored record has esVacaciones true together with a turno,
\* every stored record has both times or none, and where it has both the
\* start is before the end or the end is 00:00; this holds for a record
\* that an update merged from the old record and the new candidate
C26_StoredRecordsValid ==
  \A d \in store :
    /\ ~(d.esVacaciones /\ HasKey(d, "turno"))
    /\ HasKey(d, "startShift") <=> HasKey(d, "endShift")
    /\ BothTimes(d) =>
         \/ MinutesOfDay(d.startShift) < MinutesOfDay(d.endShift)
         \/ d.endShift = T0000

\* a working day with both times is stored, then a vacation candidate for
\* the same date replaces it: the merged record has lost the shift
C26_Witness ==
  /\ last.op = "upsertTurno" /\ last.error = "none" /\ now = 2
  /\ last.input.esVacaciones
  /\ \E old \in last.before : \E d \in store :
       /\ old.id = d.id
       /\ HasKey(old, "turno") /\ BothTimes(old)
       /\ d.createdAt = old.createdAt /\ d.updatedAt = 2
       /\ d.esVacaciones /\ NoShiftFields(d)

-----------------------------------------------------------------------------
(* Properties of a rejected candidate *)

Rejections == {"zod", "date", "conflict", "incomplete", "order"}

\* C27: when upsertTurno rejects a candidate, for its form or for a
\* business rule, nothing is handed to the repository and the container is
\* what it was before the call, at the key of the candidate and at every
\* other key
C27_RejectionLeavesStore ==
  (last.op = "upsertTurno" /\ last.error \in Rejections) =>
    /\ last.handed = {}
    /\ last.result = {}
    /\ store = last.before

\* a shift from 22:00 to 06:00 is rejected for a date that holds a record,
\* and the record stays
C27_Witness ==
  /\ last.op = "upsertTurno" /\ last.error = "order"
  /\ WellFormed(last.input)
  /\ \E d \in last.before :
       /\ d.fecha = last.input.fecha
       /\ d \in store
       /\ d.startShift # last.input.startShift
  /\ store = last.before

-----------------------------------------------------------------------------
(* Properties of a repeated import *)

\* both imports ran without a storage failure
ImportedTwice ==
  /\ last.op = "processExcelData again"
  /\ \A f \in DOMAIN last.fails : last.fails[f] = "none"
  /\ \A f \in DOMAIN last.first.fails : last.first.fails[f] = "none"

\* a record without updatedAt
Lasting(d) == [k \in DOMAIN d \ {"updatedAt"} |-> d[k]]

\* C28: when a batch is imported twice in a row and no storage call fails,
\* the second import inserts nothing, updates as many records as the first
\* inserted and updated, gives the same warnings, and leaves every record
\* with the id, the data fields and the createdAt it had after the first
\* import
C28_ReimportIdempotent ==
  ImportedTwice =>
    /\ last.result.inserted = 0
    /\ last.result.updated
         = last.first.result.inserted + last.first.result.updated
    /\ last.result.skipped = 0 /\ last.first.result.skipped = 0
    /\ last.result.warnings = last.first.result.warnings
    /\ {Lasting(d) : d \in store} = {Lasting(d) : d \in last.before}
    /\ Cardinality(store) = Cardinality(last.before)

\* a sheet of a working day for a date that holds a record, a vacation day
\* for a new date and a row that fails: the first import updates one and
\* inserts one, the second updates two and refreshes updatedAt
C28_Witness ==
  /\ ImportedTwice
  /\ last.first.result.inserted = 1 /\ last.first.result.updated = 1
  /\ last.result.updated = 2
  /\ last.result.warnings # <<>>
  /\ \E d \in store : d.updatedAt = 2 /\ d.createdAt = 1
  /\ \E d \in store : d.updatedAt = 2 /\ d.createdAt = 0

-----------------------------------------------------------------------------
(* Properties of the two repositories over the same records *)

\* a record as a response shows it, without the two timestamps
Shown(d) == ToJSON(Untimed(d))

ShownAll(items) == [i \in DOMAIN items |-> Shown(items[i])]

ReadByBoth ==
  last.op \in {"findByFecha", "findByDateRange", "search", "getStats"}
    /\ "cosmos" \in DOMAIN last

\* the two answers of last hold the same records in the same order and the
\* same counts
SameAnswer ==
  /\ last.status = "ok"
  /\ CASE last.op = "findByFecha" ->
            {Shown(d) : d \in last.file} = {Shown(d) : d \in last.cosmos}
       [] last.op = "findByDateRange" ->
            ShownAll(last.file) = ShownAll(last.cosmos)
       [] last.op = "search" ->
            /\ ShownAll(last.file.items) = ShownAll(last.cosmos.items)
            /\ last.file.total = last.cosmos.total
       [] OTHER -> last.file = last.cosmos

\* C29: over the same records, findByFecha, findByDateRange, search and
\* getStats of the repository over the file return the same records, in
\* the same order, and the same counts as those of the repository over the
\* container, for every from / to, filter and personaId
C29_BackendsAgree == ReadByBoth => SameAnswer

\* no record stored belongs to a person and the read names no person
NoPerson ==
  /\ \A d \in store : ~Truthy(Get(d, "personaId"))
  /\ ~Truthy(Get(last.input, "personaId"))

\* the two repositories agree where persons play no part
BackendsAgreeWithoutPerson == ReadByBoth /\ NoPerson => SameAnswer

-----------------------------------------------------------------------------
(* Properties of the two parses of an uploaded row *)

\* the upload reached the service
Processed == Uploaded /\ last.status = 200

Outcome == CHOOSE out \in last.result : TRUE

\* C30: a row that excelRowSchema accepts is accepted again in the form the
\* first parse gave it, with the same date, shift type, start and end time,
\* vacation flag and notes, so the rows that the handler parsed before the
\* service give the same candidates, warnings and counts as the rows of the
\* sheet parsed once
C30_ParseTwiceAsOnce ==
  Processed =>
    /\ \A i \in DOMAIN UploadedFile.rows :
         LET once == excelRowSchema(UploadedFile.rows[i]) IN
           /\ once.status = "ok" => excelRowSchema(Outcome.input[i]) = once
           /\ once.status # "ok" => Outcome.input[i] = UploadedFile.rows[i]
    /\ Outcome.validRows
         = validateRows(UploadedFile.rows, 1,
                        [warnings |-> <<>>, validRows |-> <<>>]).validRows
    /\ Outcome.output
         = processExcelData(last.before, UploadedFile.rows, now,
                            last.fails).result

\* a row in relaxed notation: its first parse rewrites the date and the two
\* times, and the candidate carries the rewritten values
C30_Witness ==
  /\ Processed
  /\ UploadedFile.rows[1].fecha
       = Str(<<"3", "1", "-", "1", "-", "2", "0", "2", "5">>)
  /\ Outcome.input[1].fecha
       = Str(<<"2", "0", "2", "5", "-", "0", "1", "-", "3", "1">>)
  /\ Outcome.input[1].vacaciones = Bool(FALSE)
  /\ Len(Outcome.validRows) = 1
  /\ Outcome.validRows[1].startShift = T0000
  /\ Outcome.validRows[1].endShift = <<"1", "2", ":", "3", "0">>
  /\ Outcome.validRows[1].notas = <<"x">>

=============================================================================
